---------------------------- MODULE Spec2Model ----------------------------
(***************************************************************************)
(* Model of the Legal_Tabular extraction engine                            *)
(*   backend/src/services/field_extractor.py   (FieldExtractor)            *)
(*   backend/src/services/service_orchestrator.py, backend/app.py,         *)
(*   backend/src/storage/repository.py         (extraction store)          *)
(*                                                                         *)
(* Python strings are sequences of one-character strings, None and         *)
(* non-string JSON values are tagged records, and a float confidence c is  *)
(* the integer 1000 * c.                                                   *)
(***************************************************************************)
EXTENDS Integers, Sequences, FiniteSets, TLC

(***************************************************************************)
(* Bounds of the model.                                                    *)
(***************************************************************************)
\* longest field_definitions list handed to extract_fields
MaxFields == 2
\* number of extraction / re-extraction requests served on the store
MaxRequests == 3

(***************************************************************************)
(* Python values.                                                          *)
(***************************************************************************)
\* Python None
Null == [kind |-> "null", s |-> <<>>]
\* a Python str
Str(s) == [kind |-> "str", s |-> s]
\* a truthy JSON value that is not a string (a number, a list)
Num == [kind |-> "num", s |-> <<>>]

\* Python truthiness of a value: `if value`, `not value`
Truthy(v) == v.kind = "num" \/ (v.kind = "str" /\ v.s # <<>>)

Min(a, b) == IF a <= b THEN a ELSE b

(***************************************************************************)
(* str methods.                                                            *)
(***************************************************************************)
UPPER == <<"A","B","C","D","E","F","G","H","I","J","K","L","M",
           "N","O","P","Q","R","S","T","U","V","W","X","Y","Z">>
LOWER == <<"a","b","c","d","e","f","g","h","i","j","k","l","m",
           "n","o","p","q","r","s","t","u","v","w","x","y","z">>
DIGITS == {"0","1","2","3","4","5","6","7","8","9"}

IsUpperChar(c) == \E i \in 1..26 : UPPER[i] = c
IsLowerChar(c) == \E i \in 1..26 : LOWER[i] = c
IsDigit(c) == c \in DIGITS
LowerChar(c) == IF IsUpperChar(c) THEN LOWER[CHOOSE i \in 1..26 : UPPER[i] = c] ELSE c
UpperChar(c) == IF IsLowerChar(c) THEN UPPER[CHOOSE i \in 1..26 : LOWER[i] = c] ELSE c

\* str.lower()
Lower(s) == [i \in 1..Len(s) |-> LowerChar(s[i])]

\* s[i:] for a 1-based i
From(s, i) == SubSeq(s, i, Len(s))

\* str.lstrip(chars) / str.rstrip(chars), chars a set of characters
LStrip(s, chars) ==
    IF \A i \in 1..Len(s) : s[i] \in chars THEN <<>>
    ELSE From(s, CHOOSE i \in 1..Len(s) :
                    s[i] \notin chars /\ \A j \in 1..(i-1) : s[j] \in chars)
RStrip(s, chars) ==
    IF \A i \in 1..Len(s) : s[i] \in chars THEN <<>>
    ELSE SubSeq(s, 1, CHOOSE i \in 1..Len(s) :
                    s[i] \notin chars /\ \A j \in (i+1)..Len(s) : s[j] \in chars)
\* str.strip(): the texts of the model hold no other whitespace than " "
Strip(s) == RStrip(LStrip(s, {" "}), {" "})

\* `sub in s`
Contains(sub, s) ==
    \E i \in 1..(Len(s) - Len(sub) + 1) : SubSeq(s, i, i + Len(sub) - 1) = sub

\* s.split(): the whitespace-separated words of s, in order
RECURSIVE Words(_)
\* the length of the first word of t, which starts with a word
WordEnd(t) ==
    IF \A i \in 1..Len(t) : t[i] # " " THEN Len(t)
    ELSE (CHOOSE i \in 1..Len(t) : t[i] = " " /\ \A j \in 1..(i-1) : t[j] # " ") - 1
SplitAt(t, n) == <<SubSeq(t, 1, n)>> \o Words(From(t, n + 1))
WordsOfStripped(t) == IF t = <<>> THEN <<>> ELSE SplitAt(t, WordEnd(t))
Words(s) == WordsOfStripped(LStrip(s, {" "}))
\* set(seq)
Range(seq) == { seq[i] : i \in 1..Len(seq) }
\* set(s.split())
Tokens(s) == Range(Words(s))

\* ' '.join(words)
RECURSIVE Join(_)
Join(ws) ==
    IF ws = <<>> THEN <<>>
    ELSE IF Len(ws) = 1 THEN ws[1]
    ELSE ws[1] \o <<" ">> \o Join(Tail(ws))

\* str.capitalize()
Capitalize(w) ==
    [i \in 1..Len(w) |-> IF i = 1 THEN UpperChar(w[i]) ELSE LowerChar(w[i])]

\* the digits-and-dashes run at s[i..]: d{n} for the regex pieces below
DigitsAt(s, i, n) == i >= 1 /\ i + n - 1 <= Len(s) /\ \A k \in i..(i+n-1) : IsDigit(s[k])
CharAt(s, i, c) == i >= 1 /\ i <= Len(s) /\ s[i] = c

(***************************************************************************)
(* Literals of the source.                                                 *)
(***************************************************************************)
\* field_extractor.py:167, the cascade's noise list
cascade_noise ==
    { <<"n","/","a">>, <<"n","o","n","e">>,
      <<"n","o","t"," ","f","o","u","n","d">>,
      <<"n","o"," ","i","n","f","o","r","m","a","t","i","o","n"," ","f","o","u","n","d">>,
      <<"u","n","k","n","o","w","n">>,
      <<"n","o","t"," ","s","p","e","c","i","f","i","e","d">>,
      <<"n","o","t"," ","s","t","a","t","e","d">> }
\* field_extractor.py:823-827, the cleaner's noise list
noise_phrases ==
    { <<"e","x","e","c","u","t","i","o","n"," ","v","e","r","s","i","o","n">>,
      <<"c","o","n","f","i","d","e","n","t","i","a","l">>,
      <<"p","a","g","e">>, <<"o","f">>,
      <<"u","n","k","n","o","w","n">>,
      <<"n","o","t"," ","f","o","u","n","d">>,
      <<"n","o","n","e">>, <<"n","/","a">>,
      <<"u","n","d","e","f","i","n","e","d">>,
      <<"n","o"," ","i","n","f","o","r","m","a","t","i","o","n"," ","f","o","u","n","d">>,
      <<"n","o","t"," ","s","p","e","c","i","f","i","e","d">>,
      <<"n","o","t"," ","s","t","a","t","e","d">> }
\* field_extractor.py:833
stray_words ==
    { <<"a","n","d">>, <<"o","r">>, <<"t","h","e">>, <<"a">>, <<"a","n">>,
      <<"o","f">>, <<"t","o">>, <<"b","y">> }
\* field_extractor.py:1026 and 1028
affirmative_words ==
    { <<"y","e","s">>, <<"t","r","u","e">>, <<"a","g","r","e","e","d">>,
      <<"c","o","n","f","i","r","m","e","d">> }
negative_words ==
    { <<"n","o">>, <<"f","a","l","s","e">>, <<"d","e","n","i","e","d">>,
      <<"r","e","j","e","c","t","e","d">> }
S_true == <<"t","r","u","e">>
S_false == <<"f","a","l","s","e">>
S_USD == <<"U","S","D">>

(***************************************************************************)
(* FieldExtractor._clean_extracted_value (field_extractor.py:720-910).     *)
(* The steps that rewrite by regular expression (leading conjunctions and  *)
(* numbering 730-736, markdown 740, LLM preambles 743-745, smart quotes    *)
(* 750, bracket wrappers 758-762, the OCR repair table 771-805, the        *)
(* unclosed parenthesis 814-820, and for TEXT the section heading 838,     *)
(* the duplicated preamble 847-858 and the two case conversions 863-899)   *)
(* leave every text of SampleTexts and CleanerTexts below unchanged: none  *)
(* of them holds a bracket, an asterisk, a run of single capitals, a       *)
(* leading conjunction or section heading, more than eight words, or       *)
(* mostly capital letters.  Every other step is computed here.             *)
(***************************************************************************)
\* lines 729 and 737: lstrip('.,;:-')
LeadingPunct == {".", ",", ";", ":", "-"}

\* lines 765-768: one pair of enclosing quotes
StripEnclosingQuotes(s) ==
    IF Len(s) >= 1
       /\ \/ (s[1] = "\"" /\ s[Len(s)] = "\"")
          \/ (s[1] = "'" /\ s[Len(s)] = "'")
    THEN Strip(SubSeq(s, 2, Len(s) - 1))
    ELSE s

\* lines 902-903
CapitalizeFirst(s) ==
    IF s # <<>> /\ IsLowerChar(s[1])
    THEN [i \in 1..Len(s) |-> IF i = 1 THEN UpperChar(s[i]) ELSE s[i]]
    ELSE s

\* line 907: re.match(r'^[A-Z0-9]+$', cleaned)
IsCode(s) == s # <<>> /\ \A i \in 1..Len(s) : IsUpperChar(s[i]) \/ IsDigit(s[i])

\* lines 831-908, the TEXT-only part
\* lines 906-908: too short to be a value, unless it is a code
DropShort(cleaned) == IF Len(cleaned) < 3 /\ ~IsCode(cleaned) THEN Null ELSE Str(cleaned)
\* line 837: re.sub(r'^[\divx]+\.\s*', '', cleaned, flags=re.IGNORECASE)
IsNumeral(c) == IsDigit(c) \/ c \in {"i", "v", "x", "I", "V", "X"}
RECURSIVE NumeralEnd(_, _)
\* the last index of the run of numerals that starts at i; i - 1 if none
NumeralEnd(s, i) == IF i <= Len(s) /\ IsNumeral(s[i]) THEN NumeralEnd(s, i + 1) ELSE i - 1
DropNumbering(s) ==
    IF NumeralEnd(s, 1) >= 1 /\ CharAt(s, NumeralEnd(s, 1) + 1, ".")
    THEN LStrip(From(s, NumeralEnd(s, 1) + 2), {" "})
    ELSE s
\* line 839: re.sub(r'^[-•*]\s*', '', cleaned), for the ASCII bullets
DropBullet(s) ==
    IF s # <<>> /\ s[1] \in {"-", "*"} THEN LStrip(From(s, 2), {" "}) ELSE s
\* line 842: re.sub(r'^(?:title|name|date|amount|price)[:\s]+', '', cleaned,
\* flags=re.IGNORECASE)
field_labels ==
    { <<"t","i","t","l","e">>, <<"n","a","m","e">>, <<"d","a","t","e">>,
      <<"a","m","o","u","n","t">>, <<"p","r","i","c","e">> }
LabelsAt(s) ==
    { l \in field_labels : /\ Len(s) > Len(l)
                           /\ Lower(SubSeq(s, 1, Len(l))) = l
                           /\ s[Len(l) + 1] \in {":", " "} }
DropLabelOf(s, ls) ==
    IF ls = {} THEN s
    ELSE LStrip(From(s, Len(CHOOSE l \in ls : TRUE) + 1), {":", " "})
DropLabel(s) == DropLabelOf(s, LabelsAt(s))
CleanText(cleaned) ==
    IF Lower(cleaned) \in stray_words THEN Null                    \* 833-834
    ELSE DropShort(CapitalizeFirst(DropLabel(DropBullet(DropNumbering(cleaned)))))

\* lines 725-811: the strips, on a str
StripPunctuation(s) ==
    RStrip(StripEnclosingQuotes(Strip(                             \* 765-768
               Strip(LStrip(                                       \* 737
                   Strip(LStrip(Strip(s), LeadingPunct)),          \* 725-730
                   LeadingPunct)))),
           {".", ",", ";", ":"})                                   \* 811
\* lines 822-910, on the stripped str
DropNoise(cleaned, field_type) ==
    IF Lower(cleaned) \in noise_phrases THEN Null                  \* 828-829
    ELSE IF field_type = "TEXT" THEN CleanText(cleaned)            \* 831-908
    ELSE Str(cleaned)                                              \* 910

_clean_extracted_value(value, field_type) ==
    IF ~Truthy(value) THEN Null                                    \* 721-722
    ELSE DropNoise(StripPunctuation(value.s), field_type)


(***************************************************************************)
(* FieldExtractor._normalize_value (field_extractor.py:994-1035).          *)
(***************************************************************************)
\* re.search(r'(\d{1,2})/(\d{1,2})/(\d{4})'): the match that starts at i,
\* with its three groups
SlashAt(s, i) ==
    LET a == IF DigitsAt(s, i, 2) THEN 2 ELSE 1
        j == i + a + 1
        b == IF DigitsAt(s, j, 2) THEN 2 ELSE 1
        k == j + b + 1
    IN  IF /\ DigitsAt(s, i, a) /\ CharAt(s, i + a, "/")
           /\ DigitsAt(s, j, b) /\ CharAt(s, j + b, "/")
           /\ DigitsAt(s, k, 4)
        THEN [ok |-> TRUE, g1 |-> SubSeq(s, i, i + a - 1),
              g2 |-> SubSeq(s, j, j + b - 1), g3 |-> SubSeq(s, k, k + 3)]
        ELSE [ok |-> FALSE, g1 |-> <<>>, g2 |-> <<>>, g3 |-> <<>>]
\* f"{g:0>2}"
Pad2(g) == IF Len(g) < 2 THEN <<"0">> \o g ELSE g

\* re.search(r'(\d{4})-(\d{2})-(\d{2})') matching at i
IsoAt(s, i) ==
    /\ DigitsAt(s, i, 4) /\ CharAt(s, i + 4, "-")
    /\ DigitsAt(s, i + 5, 2) /\ CharAt(s, i + 7, "-")
    /\ DigitsAt(s, i + 8, 2)

\* the leftmost position of a set of match positions
Leftmost(P) == CHOOSE i \in P : \A j \in P : i <= j

\* the names of the third pattern (line 1006), in lower case: the search
\* ignores case
MonthNames ==
    << <<"j","a","n","u","a","r","y">>,
       <<"f","e","b","r","u","a","r","y">>,
       <<"m","a","r","c","h">>,
       <<"a","p","r","i","l">>,
       <<"m","a","y">>,
       <<"j","u","n","e">>,
       <<"j","u","l","y">>,
       <<"a","u","g","u","s","t">>,
       <<"s","e","p","t","e","m","b","e","r">>,
       <<"o","c","t","o","b","e","r">>,
       <<"n","o","v","e","m","b","e","r">>,
       <<"d","e","c","e","m","b","e","r">> >>
\* no match of the third pattern
NoMonth == [ok |-> FALSE, month |-> 0, day |-> <<>>, year |-> <<>>]
\* the months whose name stands at i
MonthNameAt(s, i) ==
    { m \in 1..12 : /\ i + Len(MonthNames[m]) - 1 <= Len(s)
                     /\ Lower(SubSeq(s, i, i + Len(MonthNames[m]) - 1)) = MonthNames[m] }
\* \s+ from j on: the first position that holds no blank
SpacesEnd(s, j) ==
    CHOOSE k \in j..(Len(s) + 1) : (\A n \in j..(k - 1) : s[n] = " ") /\ ~CharAt(s, k, " ")
\* (\d{4}) at y0
MonthYearAt(s, m, day, y0) ==
    IF DigitsAt(s, y0, 4)
    THEN [ok |-> TRUE, month |-> m, day |-> day, year |-> SubSeq(s, y0, y0 + 3)]
    ELSE NoMonth
\* \s+ at p
MonthYear(s, m, day, p) ==
    IF CharAt(s, p, " ") THEN MonthYearAt(s, m, day, SpacesEnd(s, p)) ELSE NoMonth
\* (\d{1,2}),? with a digits at d0
MonthDay(s, m, d0, a) ==
    IF DigitsAt(s, d0, a)
    THEN MonthYear(s, m, SubSeq(s, d0, d0 + a - 1),
                   IF CharAt(s, d0 + a, ",") THEN d0 + a + 1 ELSE d0 + a)
    ELSE NoMonth
\* \s+ after the name, which ends before j
MonthAfterName(s, m, j) ==
    IF CharAt(s, j, " ")
    THEN MonthDay(s, m, SpacesEnd(s, j), IF DigitsAt(s, SpacesEnd(s, j), 2) THEN 2 ELSE 1)
    ELSE NoMonth
MonthOfName(s, i, m) == MonthAfterName(s, m, i + Len(MonthNames[m]))
\* re.search of the third pattern (lines 1006-1007) matching at i
MonthAt(s, i) ==
    IF MonthNameAt(s, i) = {} THEN NoMonth
    ELSE MonthOfName(s, i, CHOOSE m \in MonthNameAt(s, i) : TRUE)

\* int() of a string of digits
DigitValue(c) == CHOOSE d \in 0..9 : <<"0","1","2","3","4","5","6","7","8","9">>[d + 1] = c
RECURSIVE NumberOf(_)
NumberOf(digits) ==
    IF digits = <<>> THEN 0
    ELSE 10 * NumberOf(SubSeq(digits, 1, Len(digits) - 1)) + DigitValue(digits[Len(digits)])
\* f"{n:02d}" for n below 100
TwoDigits(n) ==
    << <<"0","1","2","3","4","5","6","7","8","9">>[(n \div 10) + 1],
       <<"0","1","2","3","4","5","6","7","8","9">>[(n % 10) + 1] >>
\* the days of the month of the year
DaysIn(month, year) ==
    IF month = 2
    THEN IF year % 4 = 0 /\ (year % 100 # 0 \/ year % 400 = 0) THEN 29 ELSE 28
    ELSE IF month \in {4, 6, 9, 11} THEN 30 ELSE 31
\* line 1007: datetime.strptime(..., "%B %d %Y") raises ValueError for a day
\* or a year that is no date
IsDate(month, day, year) == year >= 1 /\ day >= 1 /\ day <= DaysIn(month, year)
\* line 1007: strftime("%Y-%m-%d"); %Y of the C library does not pad a
\* year below 1000 with zeros
MonthDate(m) ==
    Str(LStrip(m.year, {"0"}) \o <<"-">> \o TwoDigits(m.month) \o <<"-">>
          \o TwoDigits(NumberOf(m.day)))
\* lines 1009-1015 for the third pattern: when the normalizer raises, the
\* loop goes on, ends, and line 1035 returns the value
MonthDateOr(value, m) ==
    IF IsDate(m.month, NumberOf(m.day), NumberOf(m.year)) THEN MonthDate(m) ELSE Str(value)

\* lines 1001-1015: the patterns in their order, each at its leftmost match
SlashDate(m) == Str(m.g3 \o <<"-">> \o Pad2(m.g1) \o <<"-">> \o Pad2(m.g2))
FirstDate(value, slash, iso, month) ==
    IF slash # {} THEN SlashDate(SlashAt(value, Leftmost(slash)))  \* 1004
    ELSE IF iso # {} THEN Str(SubSeq(value, Leftmost(iso), Leftmost(iso) + 9))
    ELSE IF month # {} THEN MonthDateOr(value, MonthAt(value, Leftmost(month)))
    ELSE Str(value)
NormalizeDate(value) ==
    FirstDate(value, { i \in 1..Len(value) : SlashAt(value, i).ok },
                     { i \in 1..Len(value) : IsoAt(value, i) },
                     { i \in 1..Len(value) : MonthAt(value, i).ok })

\* lines 1017-1022: re.search(r'\$?([\d,]+\.?\d*)')
IsNumChar(c) == IsDigit(c) \/ c = ","
RECURSIVE RunEnd(_, _, _)
\* the last index of the longest run of characters satisfying Digit-or-comma
\* (commas = TRUE) or Digit (commas = FALSE) that starts at i; i - 1 if none
RunEnd(s, i, commas) ==
    IF i <= Len(s) /\ (IF commas THEN IsNumChar(s[i]) ELSE IsDigit(s[i]))
    THEN RunEnd(s, i + 1, commas) ELSE i - 1
WithoutCommas(s) == SelectSeq(s, LAMBDA c : c # ",")
\* the end of the match whose [\d,]+ ends at e1
AmountEnd(value, e1) ==
    IF CharAt(value, e1 + 1, ".") THEN RunEnd(value, e1 + 2, FALSE) ELSE e1
AmountFrom(value, i) ==
    Str(S_USD \o <<" ">> \o
        WithoutCommas(SubSeq(value, i, AmountEnd(value, RunEnd(value, i, TRUE)))))
FirstAmount(value, starts) ==
    IF starts = {} THEN Str(value) ELSE AmountFrom(value, Leftmost(starts))
NormalizeCurrency(value) ==
    FirstAmount(value, { i \in 1..Len(value) : IsNumChar(value[i]) })

\* lines 1024-1029
NormalizeBoolean(value) ==
    IF \E w \in affirmative_words : Contains(w, Lower(value)) THEN Str(S_true)
    ELSE IF \E w \in negative_words : Contains(w, Lower(value)) THEN Str(S_false)
    ELSE Str(value)

\* lines 1031-1033
CapitalizeAll(ws) == [i \in 1..Len(ws) |-> Capitalize(ws[i])]
NormalizeEntity(value) == Str(Join(CapitalizeAll(Words(value))))

\* lines 1001-1035, on the stripped str
NormalizeStripped(v, field_type) ==
    CASE field_type = "DATE" -> NormalizeDate(v)
      [] field_type = "CURRENCY" -> NormalizeCurrency(v)
      [] field_type = "BOOLEAN" -> NormalizeBoolean(v)
      [] field_type = "ENTITY" -> NormalizeEntity(v)
      [] OTHER -> Str(v)                                            \* 1035

_normalize_value(value, field_type) ==
    IF ~Truthy(value) THEN Null                                    \* 996-997
    ELSE NormalizeStripped(Strip(value.s), field_type)             \* 999

(***************************************************************************)
(* FieldExtractor._validate_extraction (field_extractor.py:1037-1070):     *)
(* the validation factor, times 1000.                                      *)
(***************************************************************************)
_validate_extraction(extracted_value, normalized_value, field_type) ==
    IF ~Truthy(extracted_value) THEN 0                             \* 1044-1045
    ELSE IF ~Truthy(normalized_value) THEN 500                     \* 1048-1049
    ELSE CASE field_type = "DATE" ->
                IF IsoAt(normalized_value.s, 1) THEN 1000 ELSE 600
           [] field_type = "CURRENCY" ->
                IF /\ Contains(S_USD, normalized_value.s)
                   /\ \E i \in 1..Len(normalized_value.s) :
                         IsNumChar(normalized_value.s[i])
                THEN 1000 ELSE 600
           [] field_type = "BOOLEAN" ->
                IF normalized_value.s \in {S_true, S_false} THEN 1000 ELSE 500
           [] OTHER -> 1000


(***************************************************************************)
(* FieldExtractor._find_citations (field_extractor.py:940-991).            *)
(* A chunk is [text, page_number, section]; a relevance score r is the     *)
(* integer floor(1000 * r).                                                *)
(***************************************************************************)
\* field_extractor.py:195, the top_k of _extract_single_field's call
top_k == 3

\* lines 955-968: Jaccard similarity of the token sets, plus 0.3 (capped at
\* 1.0) when the query occurs in the chunk
Ratio(intersection, union) ==
    IF union > 0 THEN (1000 * intersection) \div union ELSE 0
Jaccard(query_tokens, chunk_tokens) ==
    Ratio(Cardinality(query_tokens \cap chunk_tokens),
          Cardinality(query_tokens \cup chunk_tokens))                 \* 958-961
Boosted(similarity, exact) ==
    IF exact THEN Min(1000, similarity + 300) ELSE similarity           \* 964-965
SimilarityLower(query_lower, chunk_lower) ==
    Boosted(Jaccard(Tokens(query_lower), Tokens(chunk_lower)),
            Contains(query_lower, chunk_lower))
Similarity(query_text, chunk_text) ==
    SimilarityLower(Lower(query_text), Lower(chunk_text))

\* a sort that leaves the list as it is
KeepOrder(scored) == scored
\* line 979: list.sort(key=similarity, reverse=True), which is stable
SortBySimilarity(scored) ==
    LET n == Len(scored)
        Before(j, i) == \/ scored[j].similarity > scored[i].similarity
                        \/ (scored[j].similarity = scored[i].similarity /\ j < i)
    IN  [k \in 1..n |->
            scored[CHOOSE i \in 1..n : Cardinality({j \in 1..n : Before(j, i)}) = k - 1]]

\* query_text is a str here; lines 950-991
\* lines 953-976
ScoredChunks(query_text, chunks) ==
    [i \in 1..Len(chunks) |->
        [text |-> chunks[i].text,
         similarity |-> Similarity(query_text, chunks[i].text),
         page |-> chunks[i].page_number,
         section |-> chunks[i].section,
         chunk_id |-> i - 1]]
\* lines 982-989: the first k of the sorted chunks that score above 0
TopK(sorted, k) ==
    SelectSeq(SubSeq(sorted, 1, Min(k, Len(sorted))), LAMBDA c : c.similarity > 0)
\* (chunk_id is the chunk's index, which the code keeps as a str; the
\* [:500] of line 984 cuts no text of the model)
Citations(kept) ==
    [i \in 1..Len(kept) |->
        [citation_text |-> kept[i].text,
         page_number |-> kept[i].page,
         section_title |-> kept[i].section,
         relevance_score |-> kept[i].similarity,
         chunk_id |-> kept[i].chunk_id]]
FindCitations(query_text, chunks, k) ==
    IF query_text = <<>> THEN <<>>
    ELSE Citations(TopK(SortBySimilarity(ScoredChunks(query_text, chunks)), k))

\* _find_citations(raw_text or extracted_value, ...): [raised, citations].
\* A query that is neither None nor a str has no lower(): AttributeError.
_find_citations(query, chunks, k) ==
    IF ~Truthy(query) THEN [raised |-> FALSE, citations |-> <<>>]   \* 950-951
    ELSE IF query.kind # "str" THEN [raised |-> TRUE, citations |-> <<>>]  \* 955
    ELSE [raised |-> FALSE, citations |-> FindCitations(query.s, chunks, k)]

(***************************************************************************)
(* The provider tiers.  What a provider call does is an input: a response  *)
(* [kind, value, raw_text, confidence] with kind                           *)
(*   "json"       the call returned a JSON object with these three keys    *)
(*   "malformed"  the call returned text that json.loads or float rejects  *)
(*   "raise"      the call raised an error that is no rate limit           *)
(*   "rate_limit" the call raised an error whose text holds "429"          *)
(*   "hang"       the call never returns                                   *)
(* A tier returns a candidate [value, raw_text, confidence].               *)
(***************************************************************************)
Resp(kind, value, raw_text, confidence) ==
    [kind |-> kind, value |-> value, raw_text |-> raw_text, confidence |-> confidence]
Failure(kind) == Resp(kind, Null, Null, 0)

\* {'value': None, 'raw_text': None, 'confidence': 0.0}
NoValue == [value |-> Null, raw_text |-> Null, confidence |-> 0]

\* lines 409-418 (Groq) and 299-308 (Gemini): the candidate read from a JSON object
FromJsonDefaulting(result) ==
    LET confidence == IF Truthy(result.value) /\ result.confidence < 100
                      THEN 900 ELSE result.confidence
    IN  [value |-> result.value, raw_text |-> result.raw_text,
         confidence |-> Min(1000, confidence)]

\* lines 378-386: the completion the Groq tier goes on with
GroqCompletion(primary, fallback) ==
    IF primary.kind = "rate_limit" THEN fallback ELSE primary

\* FieldExtractor._extract_with_groq, lines 358-421
_extract_with_groq(primary, fallback) ==
    LET chat_completion == GroqCompletion(primary, fallback)
    IN  IF chat_completion.kind = "json" THEN FromJsonDefaulting(chat_completion)
        ELSE NoValue                                                \* 419-421

\* FieldExtractor._extract_with_gemini, lines 279-311
_extract_with_gemini(response) ==
    IF response.kind = "json" THEN FromJsonDefaulting(response)
    ELSE NoValue                                                    \* 309-311

\* FieldExtractor._extract_with_llm, lines 454-464
_extract_with_llm(response) ==
    IF response.kind = "json"
    THEN [value |-> response.value, raw_text |-> response.raw_text,
          confidence |-> Min(1000, response.confidence)]
    ELSE NoValue                                                    \* 462-464

(***************************************************************************)
(* FieldExtractor._extract_with_heuristics (field_extractor.py:466-546).   *)
(* What the regular expressions find in document_text is an input:         *)
(*   matches   the matches of the field's patterns, in the order the two   *)
(*             loops of lines 486-489 meet them, each with its captured    *)
(*             group, its pattern's confidence_boost (times 1000), the     *)
(*             sentence _sentence_at_position returns for it and the       *)
(*             +-300 character context                                     *)
(*   windows   per alias with a window match (516-520), the captured rest  *)
(*             of the line and the context                                 *)
(*   sentence  what _find_sentence_by_alias returns                        *)
(***************************************************************************)
\* the first index of flags that holds TRUE, 0 if none
FirstTrue(flags) ==
    IF \E i \in 1..Len(flags) : flags[i]
    THEN CHOOSE i \in 1..Len(flags) : flags[i] /\ \A j \in 1..(i-1) : ~flags[j]
    ELSE 0
\* lines 491-493 and 523-525: which captured groups survive the cleaner
Usable(ms, field_type) ==
    [i \in 1..Len(ms) |-> Truthy(_clean_extracted_value(ms[i].group, field_type))]

\* lines 494-510: the candidate of a pattern match
FromMatch(m, cleaned, field_type) ==
    [value |-> Str(Strip(IF field_type = "TEXT" /\ Len(cleaned.s) < 20 /\ Truthy(m.sentence)
                         THEN Strip(m.sentence.s) ELSE cleaned.s)),   \* 494-497
     raw_text |-> Str(Strip(m.context)),
     confidence |-> Min(1000, 600 + m.boost)]
\* lines 526-533: the candidate of a window match
FromWindow(w, cleaned) ==
    [value |-> Str(Strip(cleaned.s)), raw_text |-> Str(Strip(w.context)),
     confidence |-> 400]
\* lines 535-543: the candidate of the alias sentence
FromSentence(sentence, cleaned) ==
    IF Truthy(sentence) /\ Truthy(cleaned)
    THEN [value |-> Str(Strip(cleaned.s)), raw_text |-> Str(Strip(sentence.s)),
          confidence |-> 350]
    ELSE NoValue                                                        \* 546
FirstCandidate(hits, field_type, mi, wi) ==
    IF mi > 0
    THEN FromMatch(hits.matches[mi],
                   _clean_extracted_value(hits.matches[mi].group, field_type), field_type)
    ELSE IF wi > 0
    THEN FromWindow(hits.windows[wi],
                    _clean_extracted_value(hits.windows[wi].group, field_type))
    ELSE FromSentence(hits.sentence, _clean_extracted_value(hits.sentence, field_type))

_extract_with_heuristics(hits, field_type) ==
    FirstCandidate(hits, field_type, FirstTrue(Usable(hits.matches, field_type)),
                                     FirstTrue(Usable(hits.windows, field_type)))

(***************************************************************************)
(* FieldExtractor._extract_single_field (field_extractor.py:111-231): the  *)
(* parts of it that the actions below put together.                        *)
(***************************************************************************)
\* lines 163-170: does the candidate of the model tiers go to the heuristics
NeedsHeuristics(candidate) ==
    LET raw_val == candidate.value
        is_noise == /\ Truthy(raw_val)
                    /\ RStrip(Strip(Lower(raw_val.s)), {"."}) \in cascade_noise
    IN  ~Truthy(raw_val) \/ is_noise \/ candidate.confidence < 100

\* line 205: final_confidence = min(1.0, confidence * validation_score)
FinalConfidence(confidence, validation_score) ==
    Min(1000, (confidence * validation_score) \div 1000)

\* lines 222-231: the result of the except branch
ErrorResult(field_name, field_type, message) ==
    [field_name |-> field_name, field_type |-> field_type,
     extracted_value |-> Null, raw_text |-> Null, normalized_value |-> Null,
     confidence_score |-> 0, citations |-> <<>>,
     method |-> "absent", error |-> message]

\* lines 202-219, and 220-231 when the citation search has raised
Assemble(candidate, meth, field_name, field_type, extracted_value, normalized_value, found) ==
    IF found.raised
    THEN ErrorResult(field_name, field_type, "AttributeError")
    ELSE [field_name |-> field_name, field_type |-> field_type,
          extracted_value |-> extracted_value, raw_text |-> candidate.raw_text,
          normalized_value |-> normalized_value,
          confidence_score |->
              FinalConfidence(candidate.confidence,
                  _validate_extraction(extracted_value, normalized_value, field_type)),
          citations |-> found.citations,
          method |-> meth, error |-> "absent"]
\* lines 191-199: the citations of `raw_text or extracted_value`, the
\* normalised value
WithCleaned(candidate, meth, field_name, field_type, chunks, extracted_value) ==
    Assemble(candidate, meth, field_name, field_type, extracted_value,
             _normalize_value(extracted_value, field_type),
             _find_citations(IF Truthy(candidate.raw_text) THEN candidate.raw_text
                             ELSE extracted_value, chunks, top_k))
\* lines 183-219: the result built from the winning candidate
BuildResult(candidate, meth, field_name, field_type, chunks) ==
    WithCleaned(candidate, meth, field_name, field_type, chunks,
                _clean_extracted_value(candidate.value, field_type))        \* 185

(***************************************************************************)
(* Sample inputs.                                                          *)
(***************************************************************************)
T_Texas == <<"T","e","x","a","s">>
T_TexasLaw == <<"T","e","x","a","s"," ","l","a","w">>
T_NA == <<"N","/","A">>
T_NoneDot == <<"N","o","n","e",".">>
T_Page == <<"P","a","g","e">>
T_QuotedNA == <<"\"","N","/","A","\"",".">>
T_Date == <<"2","0","2","4","-","0","1","-","1","5">>
T_Dated == <<"d","a","t","e","d"," ","2","0","2","4","-","0","1","-","1","5">>
T_Other == <<"o","t","h","e","r"," ","w","o","r","d","s">>
\* every text the providers, the patterns and the chunks of the model hold
SampleTexts ==
    { <<>>, T_Texas, T_TexasLaw, T_NA, T_NoneDot, T_Page, T_QuotedNA, T_Date,
      T_Dated, T_Other }

\* the chunks of the sample document, as extract_fields_for_document builds
\* them (service_orchestrator.py:273-280)
SampleChunks ==
    << [text |-> T_TexasLaw, page_number |-> 1, section |-> "Main"],
       [text |-> T_Dated, page_number |-> 2, section |-> "Main"] >>
DocumentChunkLists == { <<>>, SampleChunks }

\* field definitions of a template
FieldDefs ==
    { [name |-> "governing_law", field_type |-> "TEXT"],
      [name |-> "effective_date", field_type |-> "DATE"] }
FieldLists == UNION { [1..n -> FieldDefs] : n \in 0..MaxFields }

\* what a model may answer
JsonResponses ==
    { Resp("json", Null, Null, 0),                        \* "not found"
      Resp("json", Str(<<>>), Null, 900),                 \* an empty value
      Resp("json", Str(T_Texas), Str(T_TexasLaw), 900),   \* a grounded value
      Resp("json", Str(T_Texas), Str(T_Other), 50),       \* reported confidence 0.05
      Resp("json", Str(T_Texas), Null, -500),             \* a negative confidence
      Resp("json", Str(T_Date), Str(T_Dated), 1500),      \* a confidence above 1
      Resp("json", Str(T_NA), Str(T_TexasLaw), 900),      \* a noise phrase
      Resp("json", Str(T_NoneDot), Null, 900),            \* a noise phrase with a full stop
      Resp("json", Str(T_Page), Str(T_TexasLaw), 900),    \* noise for the cleaner only
      Resp("json", Num, Null, 900),                       \* a value that is no string
      Resp("json", Str(T_Texas), Num, 900) }              \* a raw_text that is no string
AllResponses ==
    JsonResponses \cup
    { Failure("malformed"), Failure("raise"), Failure("rate_limit"), Failure("hang") }
\* the answers drawn when extract_fields is given more than one field
FewResponses ==
    { Resp("json", Null, Null, 0),
      Resp("json", Str(T_Texas), Str(T_TexasLaw), 900),
      Resp("json", Num, Null, 900),
      Resp("json", Str(T_Texas), Num, 900),
      Failure("raise"), Failure("hang") }

\* what the patterns may find in the document
Match(group, boost, sentence, context) ==
    [group |-> Str(group), boost |-> boost, sentence |-> sentence, context |-> context]
Hits(matches, windows, sentence) ==
    [matches |-> matches, windows |-> windows, sentence |-> sentence]
HeuristicHits ==
    { Hits(<<>>, <<>>, Null),
      Hits(<<Match(T_Texas, 400, Str(T_TexasLaw), T_TexasLaw)>>, <<>>, Null),
      Hits(<<Match(T_NA, 300, Null, T_Other), Match(T_Date, 300, Null, T_Dated)>>, <<>>, Null),
      Hits(<<Match(T_QuotedNA, 200, Null, T_TexasLaw)>>, <<>>, Null),
      Hits(<<>>, <<Match(T_Page, 0, Null, T_Other), Match(T_TexasLaw, 0, Null, T_TexasLaw)>>, Null),
      Hits(<<>>, <<>>, Str(T_Dated)) }
NoHits == Hits(<<>>, <<>>, Null)
\* the finds drawn when extract_fields is given more than one field
FewHeuristicHits ==
    { NoHits, Hits(<<>>, <<>>, Str(T_Dated)) }

(***************************************************************************)
(* State.                                                                  *)
(***************************************************************************)
VARIABLES
    groq_client,        \* FieldExtractor.groq_client is set
    gemini_model,       \* FieldExtractor.gemini_model is set
    llm_client,         \* FieldExtractor.llm_client is set
    field_definitions,  \* the argument of extract_fields
    document_chunks,    \* the argument of extract_fields
    results,            \* extract_fields: results
    idx,                \* extract_fields: the position of the loop, 1-based
    pc,                 \* where the call of _extract_single_field stands
    extraction_result,  \* _extract_single_field: the local of that name
    method,             \* _extract_single_field: the local of that name
    log,                \* history: what each tier was asked and answered for the
                        \* field in hand (for the last field once it is finished)
    store,              \* the extraction_results table
    next_id,            \* the next primary key of the table
    requests,           \* the extraction requests accepted so far
    task,               \* the background task that is running
    documents,          \* the documents table, in insertion order
    extractions,        \* the extraction_results table of all projects
    citations,          \* the citations table
    review_states,      \* the review_states table
    annotations,        \* the annotations table
    next_row,           \* the next fresh primary key (uuid4 in the code)
    job,                \* the extraction or re-extraction call that is running
    jobs,               \* the calls started so far
    deleted_count,      \* re_extract_project: the local of that name
    removed,            \* history: the rows the last delete removed, per table
    field_templates,    \* the field_templates table
    templates_used,     \* history: the template versions extractions were made with
    call,               \* the function called last, with its arguments
    ret,                \* what that call returned
    tasks,              \* the tasks table, in insertion order
    runners,            \* the background runner of each task: where it stands
    task_log,           \* history: the statuses each runner has written
    projects,           \* the ids of the projects table
    chunk_rows,         \* the document_chunks table
    evaluations,        \* the evaluation_results table
    reviews,            \* the calls of update_extraction_review: where each stands
    row_status,         \* the status column of the rows whose status was updated
    retry,              \* retry_on_lock: the call of wrapper and its locals
    limiter             \* RateLimitMiddleware: its fields, the clock, the requests seen

extractor_vars ==
    <<groq_client, gemini_model, llm_client, field_definitions, document_chunks,
      results, idx, pc, extraction_result, method, log>>
store_vars == <<store, next_id, requests, task>>
repo_vars ==
    <<documents, extractions, citations, review_states, annotations, next_row,
      job, jobs, deleted_count, removed>>
vars == <<groq_client, gemini_model, llm_client, field_definitions, document_chunks,
          results, idx, pc, extraction_result, method, log, store, next_id, requests, task,
          documents, extractions, citations, review_states, annotations, next_row,
          job, jobs, deleted_count, removed, field_templates, templates_used, call, ret,
          tasks, runners, task_log, projects, chunk_rows, evaluations,
          reviews, row_status, retry, limiter>>
template_vars == <<field_templates, templates_used>>
pure_vars == <<call, ret>>
service_vars ==
    <<tasks, runners, task_log, projects, chunk_rows, evaluations, reviews, row_status,
      retry, limiter>>

\* no tier was run yet for the field in hand
NotCalled == [called |-> FALSE, primary |-> Failure("none"), fallback |-> Failure("none"),
              out |-> NoValue]
FreshLog ==
    [groq |-> NotCalled, gemini |-> NotCalled, llm |-> NotCalled,
     heuristics |-> [called |-> FALSE, hits |-> NoHits, out |-> NoValue],
     raised |-> FALSE]
Called(primary, fallback, out) ==
    [called |-> TRUE, primary |-> primary, fallback |-> fallback, out |-> out]


(***************************************************************************)
(* The extractor: FieldExtractor.extract_fields (field_extractor.py:63-109)*)
(* calling _extract_single_field (111-231) once per field definition.      *)
(* pc is "cascade" at line 128 of the call for field idx (and, past the    *)
(* last field, at line 109), "gemini_fallback" at line 140, "heuristics"   *)
(* at line 163, "finish" at line 183, "blocked" inside a provider call     *)
(* that never returns, and "returned" once extract_fields has returned.    *)
(***************************************************************************)
ExtractorInit ==
    /\ groq_client \in BOOLEAN
    /\ gemini_model \in BOOLEAN
    /\ llm_client \in BOOLEAN
    /\ field_definitions \in FieldLists
    /\ document_chunks \in (IF Len(field_definitions) <= 1
                            THEN DocumentChunkLists ELSE {SampleChunks})
    /\ results = <<>>                                               \* line 82
    /\ idx = 1
    /\ pc = "cascade"
    /\ extraction_result = NoValue                                  \* line 125
    /\ method = "heuristic"                                         \* line 126
    /\ log = FreshLog

InField == idx <= Len(field_definitions)
\* One field is extracted against every sample answer; several fields are
\* extracted against the few answers that tell the outcomes of a field
\* apart (a value, no value, an error of the tier, an error of the
\* pipeline, no answer).
Responses == IF Len(field_definitions) <= 1 THEN AllResponses ELSE FewResponses
HeuristicFinds == IF Len(field_definitions) <= 1 THEN HeuristicHits ELSE FewHeuristicHits
field_name == field_definitions[idx].name
field_type == field_definitions[idx].field_type

\* the configuration and the arguments of the call do not change
ConfigUnchanged ==
    UNCHANGED <<groq_client, gemini_model, llm_client, field_definitions,
                document_chunks, store, next_id, requests, task,
                documents, extractions, citations, review_states, annotations,
                next_row, job, jobs, deleted_count, removed,
                field_templates, templates_used, call, ret, service_vars>>

\* the answers the Groq tier may get: the fallback model is asked only
\* after a rate limit of the primary model (lines 378-386)
GroqAnswers ==
    { <<p, f>> \in Responses \X (Responses \cup {Failure("none")}) :
        (p.kind = "rate_limit") <=> (f # Failure("none")) }
GroqBlocks(primary, fallback) ==
    primary.kind = "hang" \/ (primary.kind = "rate_limit" /\ fallback.kind = "hang")

\* faulty variants of AfterGroq: Gemini is never asked after Groq; Gemini is
\* asked whenever the heuristics would be
AfterGroqSkipsGemini(candidate) == "heuristics"
AfterGroqAlsoOnNoise(candidate) ==
    IF NeedsHeuristics(candidate) /\ gemini_model THEN "gemini_fallback" ELSE "heuristics"

\* lines 138-145: where the Groq branch goes on after the Groq tier
AfterGroq(candidate) ==
    IF ~Truthy(candidate.value) /\ gemini_model THEN "gemini_fallback" ELSE "heuristics"

\* lines 130-134: the Groq tier
GroqTier ==
    /\ pc = "cascade" /\ InField /\ groq_client
    /\ \E a \in GroqAnswers :
         \E out \in {_extract_with_groq(a[1], a[2])} :
             /\ log' = [FreshLog EXCEPT !.groq = Called(a[1], a[2], out)]
             /\ IF GroqBlocks(a[1], a[2])
                THEN /\ pc' = "blocked"
                     /\ UNCHANGED <<extraction_result, method>>
                ELSE /\ extraction_result' = out
                     /\ method' = "groq"
                     /\ pc' = AfterGroq(out)
    /\ UNCHANGED <<results, idx>>
    /\ ConfigUnchanged

\* lines 138-145: Gemini after a Groq tier without a value
GeminiFallback ==
    /\ pc = "gemini_fallback"
    /\ \E r \in Responses :
         \E gemini_result \in {_extract_with_gemini(r)} :
             /\ log' = [log EXCEPT !.gemini = Called(r, Failure("none"), gemini_result)]
             /\ IF r.kind = "hang"
                THEN /\ pc' = "blocked"
                     /\ UNCHANGED <<extraction_result, method>>
                ELSE /\ pc' = "heuristics"
                     /\ IF Truthy(gemini_result.value)
                        THEN /\ extraction_result' = gemini_result
                             /\ method' = "gemini_fallback"
                        ELSE UNCHANGED <<extraction_result, method>>
    /\ UNCHANGED <<results, idx>>
    /\ ConfigUnchanged

\* lines 148-152: Gemini as the first model
GeminiTier ==
    /\ pc = "cascade" /\ InField /\ ~groq_client /\ gemini_model
    /\ \E r \in Responses :
         \E out \in {_extract_with_gemini(r)} :
             /\ log' = [FreshLog EXCEPT !.gemini = Called(r, Failure("none"), out)]
             /\ IF r.kind = "hang"
                THEN /\ pc' = "blocked"
                     /\ UNCHANGED <<extraction_result, method>>
                ELSE /\ extraction_result' = out
                     /\ method' = "gemini"
                     /\ pc' = "heuristics"
    /\ UNCHANGED <<results, idx>>
    /\ ConfigUnchanged

\* lines 155-159: the generic client
LlmTier ==
    /\ pc = "cascade" /\ InField /\ ~groq_client /\ ~gemini_model /\ llm_client
    /\ \E r \in Responses :
         \E out \in {_extract_with_llm(r)} :
             /\ log' = [FreshLog EXCEPT !.llm = Called(r, Failure("none"), out)]
             /\ IF r.kind = "hang"
                THEN /\ pc' = "blocked"
                     /\ UNCHANGED <<extraction_result, method>>
                ELSE /\ extraction_result' = out
                     /\ method' = "llm"
                     /\ pc' = "heuristics"
    /\ UNCHANGED <<results, idx>>
    /\ ConfigUnchanged

\* lines 130-159 with no model configured
NoModelTier ==
    /\ pc = "cascade" /\ InField /\ ~groq_client /\ ~gemini_model /\ ~llm_client
    /\ log' = FreshLog
    /\ pc' = "heuristics"
    /\ UNCHANGED <<results, idx, extraction_result, method>>
    /\ ConfigUnchanged

\* faulty variants of ReturnResult: a result of the except branch is not
\* appended; the locals of the call outlive it
ReturnResultSkipsErrors(result) ==
    /\ results' = IF result.error # "absent" THEN results ELSE Append(results, result)
    /\ idx' = idx + 1
    /\ pc' = "cascade"
    /\ extraction_result' = NoValue
    /\ method' = "heuristic"
ReturnResultKeepsLocals(result) ==
    /\ results' = Append(results, result)
    /\ idx' = idx + 1
    /\ pc' = "cascade"
    /\ UNCHANGED <<extraction_result, method>>

\* the call for field idx returns `result`: extract_fields appends it
\* (line 107) and calls _extract_single_field for the next field, whose
\* locals are new (lines 125-126)
ReturnResult(result) ==
    /\ results' = Append(results, result)
    /\ idx' = idx + 1
    /\ pc' = "cascade"
    /\ extraction_result' = NoValue
    /\ method' = "heuristic"

\* lines 163-181: the check of the models' candidate and the heuristic tier.
\* raw_val.lower() of line 166 raises for a value that is no string, which
\* ends the call in the except branch (220-231).
HeuristicTier ==
    /\ pc = "heuristics"
    /\ IF extraction_result.value.kind = "num"
       THEN /\ log' = [log EXCEPT !.raised = TRUE]
            /\ ReturnResult(ErrorResult(field_name, field_type, "AttributeError"))
       ELSE /\ IF NeedsHeuristics(extraction_result)
               THEN \E hits \in HeuristicFinds :
                      \E heuristic_result \in {_extract_with_heuristics(hits, field_type)} :
                          /\ log' = [log EXCEPT !.heuristics =
                                        [called |-> TRUE, hits |-> hits,
                                         out |-> heuristic_result]]
                          /\ IF Truthy(heuristic_result.value)
                             THEN /\ extraction_result' = heuristic_result
                                  /\ method' = "heuristic_fallback"
                             ELSE UNCHANGED <<extraction_result, method>>
               ELSE UNCHANGED <<extraction_result, method, log>>
            /\ pc' = "finish"
            /\ UNCHANGED <<results, idx>>
    /\ ConfigUnchanged

\* lines 183-219, and 220-231 when the citation search raises
Finish ==
    /\ pc = "finish"
    /\ \E result \in {BuildResult(extraction_result, method, field_name, field_type,
                                    document_chunks)} :
           /\ ReturnResult(result)
           /\ log' = [log EXCEPT !.raised = (result.error # "absent")]
    /\ ConfigUnchanged

\* line 109: extract_fields returns
Return ==
    /\ pc = "cascade" /\ ~InField
    /\ pc' = "returned"
    /\ UNCHANGED <<results, idx, extraction_result, method, log>>
    /\ ConfigUnchanged

ExtractorNext ==
    \/ GroqTier
    \/ GeminiFallback
    \/ GeminiTier
    \/ LlmTier
    \/ NoModelTier
    \/ HeuristicTier
    \/ Finish
    \/ Return

\* no background task: nothing to delete, no document to extract
NoTask == [delete |-> FALSE, todo |-> <<>>]
\* the store is not part of this specification
StoreIdle == store = {} /\ next_id = 1 /\ requests = 0 /\ task = NoTask
\* no call of the extraction services is running
NoJob == [phase |-> "idle", project_id |-> "none", todo |-> <<>>]
\* what delete_extractions_for_project removed when it was never called
NothingRemoved == [extractions |-> 0, citations |-> 0, review_states |-> 0, annotations |-> 0]
\* the tables are not part of this specification
RepoIdle ==
    /\ documents = <<>> /\ extractions = {} /\ citations = {}
    /\ review_states = {} /\ annotations = {} /\ next_row = 1
    /\ job = NoJob /\ jobs = 0 /\ deleted_count = 0 /\ removed = NothingRemoved
\* no template is stored
TemplatesIdle == field_templates = <<>> /\ templates_used = {}
\* no function is called; a call has not returned yet
NoCall == [fn |-> "none"]
NotReturned == [done |-> FALSE]
Returned(value) == [done |-> TRUE, value |-> value]
PureIdle == call = NoCall /\ ret = NotReturned
\* the parts that are not part of the specification in hand
\* no task was created; the other tables are not part of the specification
\* no wrapped operation is called
NotWrapped == [pc |-> "idle"]
\* the middleware is not installed
NoLimiter == [max_requests |-> 0]
ServicesIdle ==
    /\ tasks = <<>> /\ runners = <<>> /\ task_log = <<>>
    /\ projects = {} /\ chunk_rows = {} /\ evaluations = {}
    /\ reviews = <<>> /\ row_status = <<>> /\ retry = NotWrapped
    /\ limiter = NoLimiter
OthersIdle == TemplatesIdle /\ PureIdle /\ ServicesIdle
OthersUnchanged == UNCHANGED <<field_templates, templates_used, call, ret, service_vars>>

Init == ExtractorInit /\ StoreIdle /\ RepoIdle /\ OthersIdle
Next == ExtractorNext
Spec == Init /\ [][Next]_vars

\* _extract_single_field is straight-line code run by one thread: a step
\* that can be taken is taken
FairSpec == Init /\ [][Next]_vars /\ WF_vars(Next)


(***************************************************************************)
(* The extraction store of one project.  A request starts a background     *)
(* task (app.py: _run_extraction 648-676, _run_re_extraction 990-1002);    *)
(* the tasks are taken here one after the other.  A row of the             *)
(* extraction_results table is [id, document_id, field_name]; the table    *)
(* has no unique constraint on (document_id, field_name)                   *)
(* (models/schema.py:150-180).                                             *)
(***************************************************************************)
\* repo.list_project_documents(project_id)
ProjectDocuments == <<"d1", "d2">>
\* template.fields of the project's template: the names of the fields
TemplateFields == <<"governing_law", "effective_date">>

\* the extractor is not part of this specification
ExtractorIdle ==
    /\ groq_client = FALSE /\ gemini_model = FALSE /\ llm_client = FALSE
    /\ field_definitions = <<>> /\ document_chunks = <<>>
    /\ results = <<>> /\ idx = 1 /\ pc = "returned"
    /\ extraction_result = NoValue /\ method = "heuristic" /\ log = FreshLog

TaskIdle == ~task.delete /\ task.todo = <<>>

\* POST /projects/{id}/extract with a document_id:
\* _run_extraction calls extract_fields_for_document (app.py:658-661)
RequestExtractDocument(d) ==
    /\ TaskIdle /\ requests < MaxRequests
    /\ task' = [delete |-> FALSE, todo |-> <<d>>]
    /\ requests' = requests + 1
    /\ UNCHANGED <<store, next_id>>

\* POST /projects/{id}/extract without one:
\* _run_extraction calls extract_all_documents (app.py:662-663)
RequestExtractAll ==
    /\ TaskIdle /\ requests < MaxRequests
    /\ task' = [delete |-> FALSE, todo |-> ProjectDocuments]
    /\ requests' = requests + 1
    /\ UNCHANGED <<store, next_id>>

\* POST /projects/{id}/re-extract: _run_re_extraction calls
\* re_extract_project (service_orchestrator.py:928-949)
RequestReExtract ==
    /\ TaskIdle /\ requests < MaxRequests
    /\ task' = [delete |-> TRUE, todo |-> ProjectDocuments]
    /\ requests' = requests + 1
    /\ UNCHANGED <<store, next_id>>

\* repository.py:757-793, delete_extractions_for_project
DeleteExtractionsForProject ==
    /\ task.delete
    /\ store' = {}
    /\ task' = [task EXCEPT !.delete = FALSE]
    /\ UNCHANGED <<next_id, requests>>

\* the rows create_extraction (repository.py:350-384) inserts for the
\* results of extract_fields, one per field definition
NewRows(d) ==
    { [id |-> next_id + i - 1, document_id |-> d, field_name |-> TemplateFields[i]] :
        i \in 1..Len(TemplateFields) }

\* service_orchestrator.py:259-339, extract_fields_for_document, for the
\* next document of the task (the loop of extract_all_documents, 349-356)
ExtractFieldsForDocument ==
    /\ ~task.delete /\ task.todo # <<>>
    /\ store' = store \cup NewRows(Head(task.todo))
    /\ next_id' = next_id + Len(TemplateFields)
    /\ task' = [task EXCEPT !.todo = Tail(task.todo)]
    /\ UNCHANGED requests

StoreNext ==
    \/ \E d \in Range(ProjectDocuments) :
         RequestExtractDocument(d) /\ UNCHANGED extractor_vars /\ UNCHANGED repo_vars /\ OthersUnchanged
    \/ RequestExtractAll /\ UNCHANGED extractor_vars /\ UNCHANGED repo_vars /\ OthersUnchanged
    \/ RequestReExtract /\ UNCHANGED extractor_vars /\ UNCHANGED repo_vars /\ OthersUnchanged
    \/ DeleteExtractionsForProject /\ UNCHANGED extractor_vars /\ UNCHANGED repo_vars /\ OthersUnchanged
    \/ ExtractFieldsForDocument /\ UNCHANGED extractor_vars /\ UNCHANGED repo_vars /\ OthersUnchanged

StoreInit == ExtractorIdle /\ StoreIdle /\ RepoIdle /\ OthersIdle
StoreSpec == StoreInit /\ [][StoreNext]_vars


(***************************************************************************)
(* Properties of the extractor.                                            *)
(***************************************************************************)
\* the field whose tiers `log` describes has returned: its result is the
\* last of results
FieldDone == pc \in {"cascade", "returned"} /\ results # <<>>
LastResult == results[Len(results)]

\* C1: every result with a null extracted_value has confidence_score 0.0
\* and an empty citations list, whatever the providers return.
C1_NullValueHasNoConfidenceNoCitations ==
    \A i \in 1..Len(results) :
        results[i].extracted_value = Null =>
            results[i].confidence_score = 0 /\ results[i].citations = <<>>

\* C2: the confidence_score of every result lies in [0,1], for every tier
\* and every confidence a provider reports.
C2_ConfidenceInUnitInterval ==
    \A i \in 1..Len(results) :
        results[i].confidence_score >= 0 /\ results[i].confidence_score <= 1000

\* C3: when extract_fields returns, results holds exactly one result per
\* field definition, in the order of the definitions.
C3_OneResultPerFieldInOrder ==
    pc = "returned" =>
        /\ Len(results) = Len(field_definitions)
        /\ \A i \in 1..Len(results) :
              /\ results[i].field_name = field_definitions[i].name
              /\ results[i].field_type = field_definitions[i].field_type
\* C3 witness: extract_fields has returned for two different fields, the
\* first of which ended in the except branch
C3_Witness ==
    /\ pc = "returned" /\ Len(results) = 2
    /\ field_definitions[1] # field_definitions[2]
    /\ results[1].error # "absent" /\ results[2].error = "absent"

\* the call for the field in hand is about to raise: raw_val.lower() on a
\* value that is no string (line 166), or the citation search on a raw_text
\* that is no string (line 191)
Raising ==
    \/ pc = "heuristics" /\ extraction_result.value.kind = "num"
    \/ pc = "finish" /\ extraction_result.raw_text.kind = "num"

\* C4: an exception in the pipeline of one field is caught at that field.
\* Whenever a field returns, its result is appended to the untouched results
\* of the earlier fields and the next field starts from fresh locals, so
\* that the other fields are extracted as if the field were absent; and
\* when the field returns by an exception its result has a null
\* extracted_value, confidence_score 0.0, no citations and the error message.
C4_ExceptionCaughtAtField ==
    [][ (results' # results \/ Raising) =>
          /\ Len(results') = Len(results) + 1
          /\ SubSeq(results', 1, Len(results)) = results
          /\ results'[Len(results')].field_name = field_definitions[idx].name
          /\ idx' = idx + 1 /\ pc' = "cascade"
          /\ extraction_result' = NoValue /\ method' = "heuristic"
          /\ UNCHANGED <<groq_client, gemini_model, llm_client, field_definitions,
                         document_chunks>>
          /\ Raising =>
               /\ results'[Len(results')].extracted_value = Null
               /\ results'[Len(results')].confidence_score = 0
               /\ results'[Len(results')].citations = <<>>
               /\ results'[Len(results')].error = "AttributeError"
      ]_vars
\* C4 witness: the first field ended in the except branch and the second
\* field of the same call has a value
C4_Witness ==
    /\ Len(results) = 2
    /\ results[1].error = "AttributeError" /\ results[1].extracted_value = Null
    /\ results[2].error = "absent" /\ results[2].extracted_value # Null


\* the ways a call of an external model fails
FailureKinds == {"raise", "rate_limit", "malformed"}
\* the last completion a tier got: for Groq that of the fallback model when
\* the primary model was rate-limited
LastCompletion(tier) == IF tier.fallback.kind # "none" THEN tier.fallback ELSE tier.primary
\* the first call of the tier failed; the tier's last call failed
CallFailed(tier) == tier.called /\ tier.primary.kind \in FailureKinds
TierFailed(tier) == tier.called /\ LastCompletion(tier).kind \in FailureKinds
ModelTiers == {log.groq, log.gemini, log.llm}
\* the model tiers are over for the field `log` describes
PastModels == pc \in {"heuristics", "finish"} \/ FieldDone

GroqDecided == log.groq.called /\ PastModels

ModelWinner ==
    IF log.gemini.called /\ (Truthy(log.gemini.out.value) \/ ~log.groq.called)
    THEN log.gemini
    ELSE IF log.groq.called THEN log.groq ELSE log.llm
\* that candidate with the confidence the model reported for it
WinnerAsReported ==
    [ModelWinner.out EXCEPT !.confidence = LastCompletion(ModelWinner).confidence]

\* C7: the heuristics run whenever the value that won the model tiers is
\* empty, a noise phrase, or was reported with confidence below 0.1; their
\* result replaces the model's only when they found a value.
C7_HeuristicsOnEmptyNoiseOrReportedLow ==
    (FieldDone /\ LastResult.error = "absent") =>
        /\ NeedsHeuristics(WinnerAsReported) => log.heuristics.called
        /\ log.heuristics.called =>
              (LastResult.method = "heuristic_fallback"
                  <=> Truthy(log.heuristics.out.value))
        /\ ~log.heuristics.called => LastResult.method # "heuristic_fallback"

\* the tiers the configuration calls for: Groq, then Gemini, or the generic
\* client when it is the only one
TierConfigured(name) ==
    CASE name = "groq" -> groq_client
      [] name = "gemini" -> gemini_model
      [] name = "llm" -> llm_client /\ ~groq_client /\ ~gemini_model

\* C8: a result without error has a null extracted_value only if every
\* configured tier and then the heuristics were attempted for the field and
\* none of them produced a value.
C8_NullOnlyAfterAllTiers ==
    (FieldDone /\ LastResult.error = "absent" /\ LastResult.extracted_value = Null) =>
        /\ \A name \in {"groq", "gemini", "llm"} :
              TierConfigured(name) =>
                  log[name].called /\ NeedsHeuristics(log[name].out)
        /\ log.heuristics.called
        /\ ~Truthy(_clean_extracted_value(log.heuristics.out.value, LastResult.field_type))

\* C9: the extraction of every field terminates, even if an external model
\* never answers.
C9_EveryFieldReturns ==
    \A n \in 1..MaxFields : (idx = n /\ InField) ~> (Len(results) >= n)


(***************************************************************************)
(* Properties of the extraction store.                                     *)
(***************************************************************************)
\* C10: after any sequence of extraction and re-extraction requests the
\* store holds at most one ExtractionResult per (document, field name).
C10_OneResultPerDocumentField ==
    \A e1 \in store : \A e2 \in store :
        (e1.document_id = e2.document_id /\ e1.field_name = e2.field_name) => e1 = e2


(***************************************************************************)
(* The tables of the repository and the two extraction services            *)
(* (repository.py, service_orchestrator.py).  A call of extract_all_       *)
(* documents or re_extract_project is a job taken in steps: the delete     *)
(* (one transaction), then each document of the project.  Annotations are  *)
(* posted between the steps.  The jobs are taken one after the other.      *)
(***************************************************************************)
\* jobs started and annotations posted in one run
MaxJobs == 3
MaxAnnotations == 1
Projects == {"p1", "p2"}
\* the primary keys one field of one document takes: its extraction, its
\* review state and at most one citation
RowsPerField == 3

\* service_orchestrator.py:128-233, ingest_document: the row of a document
\* whose file parses, stored with its text and INDEXED (lines 187-216), and
\* of one whose file does not parse, stored with content_text "" and ERROR
\* (lines 146-163)
IngestDocument(p, parsed) ==
    [project_id |-> p,
     content_text |-> IF parsed THEN "text" ELSE "",
     status |-> IF parsed THEN "INDEXED" ELSE "ERROR"]

\* the documents tables the jobs are run on
DocumentTables ==
    { <<IngestDocument("p1", TRUE)>>,
      <<IngestDocument("p1", FALSE)>>,
      <<IngestDocument("p1", TRUE), IngestDocument("p2", TRUE)>>,
      <<IngestDocument("p2", TRUE), IngestDocument("p1", FALSE)>> }

\* repository.py:199-205, list_project_documents: the ids (positions) of
\* the documents of the project
RECURSIVE list_project_documents(_, _)
list_project_documents(project_id, n) ==
    IF n = 0 THEN <<>>
    ELSE IF documents[n].project_id = project_id
         THEN Append(list_project_documents(project_id, n - 1), n)
         ELSE list_project_documents(project_id, n - 1)

\* app.py:648-676, _run_extraction calling extract_all_documents
\* (service_orchestrator.py:341-363): the documents are listed first
extract_all_documents(p) ==
    /\ job.phase = "idle" /\ jobs < MaxJobs
    /\ job' = [phase |-> "extract", project_id |-> p,
               todo |-> list_project_documents(p, Len(documents))]
    /\ jobs' = jobs + 1
    /\ UNCHANGED <<documents, extractions, citations, review_states, annotations,
                   next_row, deleted_count, removed>>

\* app.py:990-1002, _run_re_extraction calling re_extract_project
\* (service_orchestrator.py:928-949): the delete comes first
re_extract_project(p) ==
    /\ job.phase = "idle" /\ jobs < MaxJobs
    /\ job' = [phase |-> "delete", project_id |-> p, todo |-> <<>>]
    /\ jobs' = jobs + 1
    /\ UNCHANGED <<documents, extractions, citations, review_states, annotations,
                   next_row, deleted_count, removed>>

\* repository.py:762-766: the ids of the extractions of the project
extraction_ids(project_id) ==
    { e.id : e \in { x \in extractions : x.project_id = project_id } }

\* a delete that leaves the rows of the other tables alone
KeepDependents(rows, ids) == {}
\* repository.py:770-780: the rows whose extraction_id is in the ids
Dependents(rows, ids) == { r \in rows : r.extraction_id \in ids }

\* repository.py:782-784: the extractions of the project
OfProject(project_id) == { e \in extractions : e.project_id = project_id }

\* repository.py:757-793, delete_extractions_for_project, as called at
\* service_orchestrator.py:940; then extract_all_documents lists the
\* documents (line 944).  With no extraction it returns 0 at line 768.
delete_extractions_for_project ==
    /\ job.phase = "delete"
    /\ \E ids \in {extraction_ids(job.project_id)} :
         IF ids = {}
         THEN /\ deleted_count' = 0
              /\ removed' = NothingRemoved
              /\ UNCHANGED <<extractions, citations, review_states, annotations>>
         ELSE /\ annotations' = annotations \ Dependents(annotations, ids)
              /\ citations' = citations \ Dependents(citations, ids)
              /\ review_states' = review_states \ Dependents(review_states, ids)
              /\ extractions' = extractions \ OfProject(job.project_id)
              /\ deleted_count' = Cardinality(OfProject(job.project_id))
              /\ removed' = [extractions |-> Cardinality(OfProject(job.project_id)),
                             citations |-> Cardinality(Dependents(citations, ids)),
                             review_states |-> Cardinality(Dependents(review_states, ids)),
                             annotations |-> Cardinality(Dependents(annotations, ids))]
    /\ job' = [job EXCEPT !.phase = "extract",
                          !.todo = list_project_documents(job.project_id, Len(documents))]
    /\ UNCHANGED <<documents, next_row, jobs>>

\* service_orchestrator.py:293-303: the row create_extraction inserts for
\* the i-th field of the template
NewExtraction(project_id, document_id, i) ==
    [id |-> next_row + RowsPerField * (i - 1), project_id |-> project_id,
     document_id |-> document_id, field_name |-> TemplateFields[i]]
\* service_orchestrator.py:317-321: its review state
NewReviewState(project_id, i) ==
    [id |-> next_row + RowsPerField * (i - 1) + 1, project_id |-> project_id,
     extraction_id |-> next_row + RowsPerField * (i - 1)]
\* service_orchestrator.py:306-314: its citation
NewCitation(document_id, i) ==
    [id |-> next_row + RowsPerField * (i - 1) + 2, document_id |-> document_id,
     extraction_id |-> next_row + RowsPerField * (i - 1)]

\* service_orchestrator.py:259-339, extract_fields_for_document, for the
\* next document of the job (the loop of extract_all_documents, 349-356).
\* Neither content_text nor the status of the document is looked at; the
\* extractor returns one result per field (line 284), with or without
\* citations (without, when the document has no text and so no chunks);
\* line 332 marks the document EXTRACTED.
extract_fields_for_document ==
    /\ job.phase = "extract" /\ job.todo # <<>>
    /\ \E d \in {Head(job.todo)}, cited \in BOOLEAN :
         /\ cited => documents[d].content_text # ""
         /\ extractions' = extractions \cup
              { NewExtraction(job.project_id, d, i) : i \in 1..Len(TemplateFields) }
         /\ review_states' = review_states \cup
              { NewReviewState(job.project_id, i) : i \in 1..Len(TemplateFields) }
         /\ citations' = citations \cup
              (IF cited THEN { NewCitation(d, i) : i \in 1..Len(TemplateFields) } ELSE {})
         /\ documents' = [documents EXCEPT ![d].status = "EXTRACTED"]
    /\ next_row' = next_row + RowsPerField * Len(TemplateFields)
    /\ job' = [job EXCEPT !.todo = Tail(job.todo)]
    /\ UNCHANGED <<annotations, jobs, deleted_count, removed>>

\* service_orchestrator.py:357-361 and 945-946: the call returns
JobReturns ==
    /\ job.phase = "extract" /\ job.todo = <<>>
    /\ job' = NoJob
    /\ UNCHANGED <<documents, extractions, citations, review_states, annotations,
                   next_row, jobs, deleted_count, removed>>

\* the extraction ids a client may have seen: those issued so far
IssuedExtractionIds == { i \in 1..(next_row - 1) : i % RowsPerField = 1 }

\* app.py:883-895, POST /annotations; repository.py:685-704,
\* create_annotation: the row is inserted for whatever extraction_id the
\* request carries
create_annotation(extraction_id) ==
    /\ Cardinality(annotations) < MaxAnnotations
    /\ annotations' = annotations \cup
          {[id |-> 0 - (Cardinality(annotations) + 1), extraction_id |-> extraction_id]}
    /\ UNCHANGED <<documents, extractions, citations, review_states, next_row,
                   job, jobs, deleted_count, removed>>

RepoNext ==
    \/ \E p \in Projects :
         extract_all_documents(p) /\ UNCHANGED extractor_vars /\ UNCHANGED store_vars /\ OthersUnchanged
    \/ \E p \in Projects :
         re_extract_project(p) /\ UNCHANGED extractor_vars /\ UNCHANGED store_vars /\ OthersUnchanged
    \/ delete_extractions_for_project /\ UNCHANGED extractor_vars /\ UNCHANGED store_vars /\ OthersUnchanged
    \/ extract_fields_for_document /\ UNCHANGED extractor_vars /\ UNCHANGED store_vars /\ OthersUnchanged
    \/ JobReturns /\ UNCHANGED extractor_vars /\ UNCHANGED store_vars /\ OthersUnchanged
    \/ \E e \in IssuedExtractionIds :
         create_annotation(e) /\ UNCHANGED extractor_vars /\ UNCHANGED store_vars /\ OthersUnchanged

RepoInit ==
    /\ ExtractorIdle /\ StoreIdle /\ OthersIdle
    /\ documents \in DocumentTables /\ extractions = {} /\ citations = {}
    /\ review_states = {} /\ annotations = {} /\ next_row = 1
    /\ job = NoJob /\ jobs = 0 /\ deleted_count = 0 /\ removed = NothingRemoved
RepoSpec == RepoInit /\ [][RepoNext]_vars

\* the rows of the three tables that refer to no extraction
Orphans(exs, cits, revs, anns) ==
    { r \in cits \cup revs \cup anns : r.extraction_id \notin { e.id : e \in exs } }
\* the rows of the four tables that belong to other projects than p
OfOthers(p, exs, cits, revs, anns) ==
    { r \in cits \cup revs \cup anns :
        r.extraction_id \in { e.id : e \in { x \in exs : x.project_id # p } } }
      \cup { x \in exs : x.project_id # p }

\* C11: a re-extraction leaves no orphans.  The delete step makes no row of
\* the citations, annotations and review_states tables an orphan (every
\* row that refers to no extraction afterwards referred to none before),
\* returns the number of extractions it removed, which are all the
\* extractions of the project, and leaves the rows of the other projects as
\* they were; and every step that extracts a document adds only rows that
\* refer to an extraction.
C11_ReExtractionLeavesNoOrphans ==
    [][ /\ (job.phase = "delete" /\ job'.phase = "extract") =>
             /\ Orphans(extractions', citations', review_states', annotations')
                  \subseteq Orphans(extractions, citations, review_states, annotations)
             /\ deleted_count' = Cardinality(extractions) - Cardinality(extractions')
             /\ { e \in extractions' : e.project_id = job.project_id } = {}
             /\ OfOthers(job.project_id, extractions', citations', review_states', annotations')
                  = OfOthers(job.project_id, extractions, citations, review_states, annotations)
        /\ (job.phase = "extract" /\ extractions' # extractions) =>
             Orphans(extractions', citations', review_states', annotations')
               \subseteq Orphans(extractions, citations, review_states, annotations)
      ]_vars

\* C11, witness: a re-extraction has run to its end; its delete removed
\* extractions with citations, review states and an annotation, the project
\* has its extractions again, and another project has extractions too.
C11_Witness ==
    /\ job = NoJob /\ deleted_count = 2
    /\ removed.citations > 0 /\ removed.review_states > 0 /\ removed.annotations > 0
    /\ \E p \in Projects, q \in Projects :
         /\ p # q /\ OfProject(p) # {} /\ OfProject(q) # {}


\* C12: extraction for a document whose text is entirely absent (stored
\* with content_text "" after a parse failure) propagates an error instead
\* of producing field results: no extraction row is stored for such a
\* document and the document is never marked EXTRACTED.
C12_AbsentTextIsNotExtracted ==
    \A d \in 1..Len(documents) :
        documents[d].content_text = "" =>
            /\ documents[d].status # "EXTRACTED"
            /\ { e \in extractions : e.document_id = d } = {}


(***************************************************************************)
(* _find_citations on its own: every call with a query, a chunk list and   *)
(* a top_k of the sets below.                                              *)
(***************************************************************************)
\* the longest chunk list and the largest top_k of a call
MaxChunks == 4
MaxTopK == 4
T_Blank == <<" ">>
T_Law == <<"l","a","w">>
\* the query: None, "" or a text (raw_text or the extracted value)
CitationQueries ==
    { Null, Str(<<>>), Str(T_Blank), Str(T_Texas), Str(T_TexasLaw), Str(T_Law),
      Str(T_Date), Str(T_NA) }
\* the texts of the chunks
ChunkTexts == { T_TexasLaw, T_Dated, T_Other, T_Texas }
\* service_orchestrator.py:273-280: the chunks of a document, in order
ChunksOf(texts) ==
    [i \in 1..Len(texts) |-> [text |-> texts[i], page_number |-> i, section |-> "Main"]]
ChunkLists ==
    UNION { { ChunksOf(texts) : texts \in [1..n -> ChunkTexts] } : n \in 0..MaxChunks }

\* the calls of _find_citations
CitationCalls ==
    { [fn |-> "_find_citations", query_text |-> query, document_chunks |-> chunks,
       top_k |-> k] :
        query \in CitationQueries, chunks \in ChunkLists, k \in 0..MaxTopK }

\* field_extractor.py:940-991, _find_citations returns
ReturnCitations ==
    /\ call.fn = "_find_citations" /\ ~ret.done
    /\ ret' = Returned(_find_citations(call.query_text, call.document_chunks,
                                        call.top_k).citations)
    /\ UNCHANGED <<field_templates, templates_used, call, service_vars>>
    /\ UNCHANGED extractor_vars /\ UNCHANGED store_vars /\ UNCHANGED repo_vars

CitationNext == ReturnCitations

CitationInit ==
    /\ ExtractorIdle /\ StoreIdle /\ RepoIdle /\ TemplatesIdle /\ ServicesIdle
    /\ call \in CitationCalls /\ ret = NotReturned
CitationSpec == CitationInit /\ [][CitationNext]_vars

\* C13: for every query, chunk list and top_k, _find_citations returns a
\* list sorted by non-increasing relevance_score, of length at most top_k,
\* whose scores are all above 0 and at most 1 (1000 thousandths), and which
\* is empty when the query is None or "".
C13_CitationsSortedBoundedPositive ==
    (call.fn = "_find_citations" /\ ret.done) =>
        /\ \A i \in 1..Len(ret.value), j \in 1..Len(ret.value) :
              i < j => ret.value[i].relevance_score >= ret.value[j].relevance_score
        /\ Len(ret.value) <= call.top_k
        /\ \A i \in 1..Len(ret.value) :
              /\ ret.value[i].relevance_score > 0
              /\ ret.value[i].relevance_score <= 1000
        /\ ~Truthy(call.query_text) => ret.value = <<>>

\* C13, witness: a call with more chunks than top_k returned top_k
\* citations of different scores, the first of them for a chunk that is not
\* the first of the document.
C13_Witness ==
    /\ call.fn = "_find_citations" /\ ret.done
    /\ Len(call.document_chunks) > call.top_k
    /\ Len(ret.value) = call.top_k /\ Len(ret.value) >= 2
    /\ ret.value[1].relevance_score > ret.value[Len(ret.value)].relevance_score
    /\ ret.value[1].chunk_id > 0


(***************************************************************************)
(* DiffService.compute_diff (service_orchestrator.py:771-869) on its own:  *)
(* every call on a documents table and an extraction table of the sets     *)
(* below.  A dict is a sequence of its keys in insertion order.  The       *)
(* SequenceMatcher ratio of a pair is not modelled.                        *)
(***************************************************************************)
\* the extractions of one document (one run of extract_fields_for_document
\* each) in the extraction table of a call
MaxExtractions == 3
T_NotAvailable == <<"N","/","A">>
T_A == <<"A">>
T_PaddedA == <<" ","A">>
T_B == <<"B">>
\* field names of the template
F_GoverningLaw == <<"g","_","l","a","w">>
F_Term == <<"t","e","r","m">>

\* the i-th set element in increasing order
Nth(keep, k) == CHOOSE i \in keep : Cardinality({ j \in keep : j < i }) = k - 1
InOrder(s, keep) == [k \in 1..Cardinality(keep) |-> s[Nth(keep, k)]]
\* the keys of a dict filled in the order of s: first occurrences
DictKeys(s) == InOrder(s, { i \in 1..Len(s) : \A j \in 1..(i - 1) : s[j] # s[i] })
\* the last position of s that holds x: the entry a dict keeps for its key
LastIndex(s, x) == CHOOSE i \in 1..Len(s) : s[i] = x /\ \A j \in (i + 1)..Len(s) : s[j] # x
\* the positions of s that hold x
Positions(s, x) == { i \in 1..Len(s) : s[i] = x }

\* str.replace('_', ' ').title(): line 792
TitleChar(s, i) ==
    IF i = 1 \/ ~(IsUpperChar(s[i - 1]) \/ IsLowerChar(s[i - 1]))
    THEN UpperChar(s[i]) ELSE LowerChar(s[i])
Title(s) == [i \in 1..Len(s) |-> TitleChar(s, i)]
FieldKey(name) == Title([i \in 1..Len(name) |-> IF name[i] = "_" THEN " " ELSE name[i]])

\* line 801: (ext.normalized_value or ext.extracted_value or "N/A").strip()
TrimmedValue(ext) ==
    Strip(IF Truthy(ext.normalized_value) THEN ext.normalized_value.s
          ELSE IF Truthy(ext.extracted_value) THEN ext.extracted_value.s
          ELSE T_NotAvailable)
\* lines 795 and 802: doc_name_map.get(ext.document_id, ext.document_id)
DocLabel(docs, ext) == docs[ext.document_id].filename

\* lines 798-808 for the extractions of one field
Values(field_exts) == [i \in 1..Len(field_exts) |-> TrimmedValue(field_exts[i])]
Labels(docs, field_exts) == [i \in 1..Len(field_exts) |-> DocLabel(docs, field_exts[i])]
\* value_groups[val]: the labels appended for the value, in order
ValueGroup(vals, labels, val) == InOrder(labels, Positions(vals, val))

\* line 811: max(value_groups.keys(), key=len of the group), the first of
\* the largest
MajorityValue(keys, vals) ==
    keys[CHOOSE k \in 1..Len(keys) :
            /\ \A j \in 1..Len(keys) :
                 Cardinality(Positions(vals, keys[j])) <= Cardinality(Positions(vals, keys[k]))
            /\ \A j \in 1..(k - 1) :
                 Cardinality(Positions(vals, keys[j])) < Cardinality(Positions(vals, keys[k]))]

\* lines 824-829: the entry of one label of a group; document_id is read
\* from doc_values[doc_label], the entry written last for the label
Outlier(field_exts, labels, lab, val) ==
    [document |-> lab, value |-> val,
     document_id |-> field_exts[LastIndex(labels, lab)].document_id]
RECURSIVE Flatten(_)
Flatten(lists) == IF lists = <<>> THEN <<>> ELSE Head(lists) \o Flatten(Tail(lists))
\* lines 818-829
OutliersOfGroup(field_exts, labels, group, val) ==
    [i \in 1..Len(group) |-> Outlier(field_exts, labels, group[i], val)]
Outliers(field_exts, vals, labels, keys, majority_value) ==
    IF Len(keys) = 1 THEN <<>>
    ELSE Flatten([k \in 1..Len(keys) |->
            IF keys[k] = majority_value THEN <<>>
            ELSE OutliersOfGroup(field_exts, labels,
                                 ValueGroup(vals, labels, keys[k]), keys[k])])

\* lines 832-843: the pairs i < j of the keys of doc_values
PairsFrom(all_values, i) ==
    [j \in 1..(Len(all_values) - i) |-> [doc_a |-> all_values[i], doc_b |-> all_values[i + j]]]
SimilarityPairs(all_values) ==
    Flatten([i \in 1..Len(all_values) |-> PairsFrom(all_values, i)])

\* lines 845-856
FieldDiffOf(f, field_exts, vals, labels, keys, majority_value) ==
    [field_name |-> f,
     is_unanimous |-> (Len(keys) = 1),
     majority_value |-> majority_value,
     majority_count |-> Cardinality(Positions(vals, majority_value)),
     total_documents |-> Len(field_exts),
     unique_values |-> Len(keys),
     value_groups |-> [k \in 1..Len(keys) |-> ValueGroup(vals, labels, keys[k])],
     outliers |-> Outliers(field_exts, vals, labels, keys, majority_value),
     document_values |-> DictKeys(labels),
     similarity_pairs |-> SimilarityPairs(DictKeys(labels))]
FieldDiffKeyed(f, field_exts, vals, labels, keys) ==
    FieldDiffOf(f, field_exts, vals, labels, keys, MajorityValue(keys, vals))
FieldDiffValued(f, field_exts, vals, labels) ==
    FieldDiffKeyed(f, field_exts, vals, labels, DictKeys(vals))
\* lines 797-856 for field_map[f]
FieldDiff(docs, f, field_exts) ==
    FieldDiffValued(f, field_exts, Values(field_exts), Labels(docs, field_exts))

\* lines 790-793: field_map[f], the extractions of the key in table order
FieldExts(exts, f) == SelectSeq(exts, LAMBDA ext : FieldKey(ext.field_name) = f)
FieldKeys(exts) == DictKeys([i \in 1..Len(exts) |-> FieldKey(exts[i].field_name)])

\* round(a / b, 3) in thousandths, for 0 <= a <= b, b > 0
Round3(a, b) == (2000 * a + b) \div (2 * b)
\* max(1, n)
AtLeastOne(n) == IF n < 1 THEN 1 ELSE n

\* lines 858-868
Summary(field_diffs) ==
    [total_fields |-> Len(field_diffs),
     fields_with_differences |->
        Cardinality({ i \in 1..Len(field_diffs) : ~field_diffs[i].is_unanimous }),
     unanimity_rate |->
        Round3(Cardinality({ i \in 1..Len(field_diffs) : field_diffs[i].is_unanimous }),
               AtLeastOne(Len(field_diffs)))]
DiffResult(field_diffs) == [field_diffs |-> field_diffs, summary |-> Summary(field_diffs)]
DiffOfKeys(docs, exts, keys) ==
    DiffResult([k \in 1..Len(keys) |-> FieldDiff(docs, keys[k], FieldExts(exts, keys[k]))])

\* lines 771-869
compute_diff(docs, exts) ==
    IF docs = <<>> \/ exts = <<>>
    THEN [field_diffs |-> <<>>,
          summary |-> [total_fields |-> 0, fields_with_differences |-> 0]]   \* 781-786
    ELSE DiffOfKeys(docs, exts, FieldKeys(exts))

\* the documents tables of the calls: app.py:284 stores the name of the
\* uploaded file as it came, so two documents can have the same filename
DiffDocuments ==
    { <<>>,
      <<[filename |-> "x.pdf"]>>,
      <<[filename |-> "x.pdf"], [filename |-> "y.pdf"]>>,
      <<[filename |-> "x.pdf"], [filename |-> "x.pdf"]>>,
      <<[filename |-> "x.pdf"], [filename |-> "y.pdf"], [filename |-> "z.pdf"]>>,
      <<[filename |-> "x.pdf"], [filename |-> "y.pdf"], [filename |-> "x.pdf"]>> }
\* what an extraction holds for the first field and for the second
LawValues ==
    { [normalized_value |-> Null, extracted_value |-> Null],
      [normalized_value |-> Str(T_A), extracted_value |-> Str(T_A)],
      [normalized_value |-> Null, extracted_value |-> Str(T_PaddedA)],
      [normalized_value |-> Str(T_B), extracted_value |-> Str(T_PaddedA)] }
TermValues ==
    { [normalized_value |-> Str(T_A), extracted_value |-> Str(T_A)],
      [normalized_value |-> Str(T_B), extracted_value |-> Str(T_B)] }
\* the rows extract_fields_for_document stores for a document
\* (service_orchestrator.py:293-303)
DiffRow(d, name, v) ==
    [document_id |-> d, field_name |-> name,
     normalized_value |-> v.normalized_value, extracted_value |-> v.extracted_value]
DocumentRows(d, law, term) == <<DiffRow(d, F_GoverningLaw, law), DiffRow(d, F_Term, term)>>
\* the extraction table of a call over n documents: up to MaxExtractions
\* runs of extract_fields_for_document, each for any document of the project
RunsOver(n) ==
    { DocumentRows(d, law, term) : d \in 1..n, law \in LawValues, term \in TermValues }
DiffCall(docs, runs) ==
    [fn |-> "compute_diff", documents |-> docs, extractions |-> Flatten(runs)]

\* compute_diff returns
ReturnDiff ==
    /\ call.fn = "compute_diff" /\ ~ret.done
    /\ ret' = Returned(compute_diff(call.documents, call.extractions))
    /\ UNCHANGED <<field_templates, templates_used, call, service_vars>>
    /\ UNCHANGED extractor_vars /\ UNCHANGED store_vars /\ UNCHANGED repo_vars

DiffNext == ReturnDiff
DiffInit ==
    /\ ExtractorIdle /\ StoreIdle /\ RepoIdle /\ TemplatesIdle /\ ServicesIdle
    /\ \E docs \in DiffDocuments, m \in 0..MaxExtractions :
         \E runs \in [1..m -> RunsOver(Len(docs))] : call = DiffCall(docs, runs)
    /\ ret = NotReturned
DiffSpec == DiffInit /\ [][DiffNext]_vars


\* the rows of the call's extraction table that belong to a field of the result
RowsOfField(fd) == FieldExts(call.extractions, fd.field_name)
\* the documents that hold the value for the field, and those that hold any
DocsHolding(rows, val) ==
    { rows[i].document_id : i \in { j \in 1..Len(rows) : TrimmedValue(rows[j]) = val } }
DocsOfField(rows) == { rows[i].document_id : i \in 1..Len(rows) }
ValuesOfField(rows) == { TrimmedValue(rows[i]) : i \in 1..Len(rows) }
\* the entries of the outlier list for a document
OutlierEntries(outliers, d) == { i \in 1..Len(outliers) : outliers[i].document_id = d }

C14_FieldCounts(fd, rows) ==
    /\ fd.unique_values = Cardinality(ValuesOfField(rows))
    /\ \A v \in ValuesOfField(rows) : Cardinality(DocsHolding(rows, v)) <= fd.majority_count
    /\ \E v \in ValuesOfField(rows) : Cardinality(DocsHolding(rows, v)) = fd.majority_count
    /\ \A d \in DocsOfField(rows) :
          Cardinality(OutlierEntries(fd.outliers, d)) =
             IF d \in DocsHolding(rows, fd.majority_value) THEN 0 ELSE 1
    /\ Len(fd.outliers) = Cardinality(DocsOfField(rows)) - fd.majority_count
    /\ fd.is_unanimous <=> Cardinality(ValuesOfField(rows)) = 1
    /\ fd.is_unanimous => fd.outliers = <<>>

\* C14: for every field of a compute_diff result, with N distinct trimmed
\* values held by M documents: unique_values is N, majority_count is the
\* number of documents of the largest value group, and outliers has exactly
\* one entry for each document whose value differs from majority_value and
\* none for the others, M - majority_count entries in all (none, with
\* is_unanimous true, when all documents hold the same value).
C14_GroupsMajorityOutliers ==
    (call.fn = "compute_diff" /\ ret.done) =>
        \A k \in 1..Len(ret.value.field_diffs) :
            C14_FieldCounts(ret.value.field_diffs[k], RowsOfField(ret.value.field_diffs[k]))


C15_FieldPairs(fd, n) ==
    /\ 2 * Len(fd.similarity_pairs) = n * (n - 1)
    /\ \A i, j \in 1..Len(fd.similarity_pairs) :
          i # j => {fd.similarity_pairs[i].doc_a, fd.similarity_pairs[i].doc_b}
                     # {fd.similarity_pairs[j].doc_a, fd.similarity_pairs[j].doc_b}
    /\ \A i \in 1..Len(fd.similarity_pairs) :
          fd.similarity_pairs[i].doc_a # fd.similarity_pairs[i].doc_b

\* C15: for every field of a compute_diff result held by n documents,
\* similarity_pairs has exactly one entry for each of the n(n-1)/2 unordered
\* pairs of distinct documents, also when the field is unanimous and also
\* when two documents of the project have the same filename.
C15_AllUnorderedPairs ==
    (call.fn = "compute_diff" /\ ret.done) =>
        \A k \in 1..Len(ret.value.field_diffs) :
            C15_FieldPairs(ret.value.field_diffs[k],
                           Cardinality(DocsOfField(RowsOfField(ret.value.field_diffs[k]))))

\* C16: every compute_diff result, also the one for a project with no
\* documents or no extractions, has a summary with total_fields,
\* fields_with_differences and unanimity_rate, where total_fields is the
\* number of field_diffs, fields_with_differences the number of field_diffs
\* that are not unanimous, and unanimity_rate their difference divided by
\* total_fields (to three decimals).
C16_SummaryOfEveryResult ==
    (call.fn = "compute_diff" /\ ret.done) =>
        /\ DOMAIN ret.value.summary =
              {"total_fields", "fields_with_differences", "unanimity_rate"}
        /\ ret.value.summary.total_fields = Len(ret.value.field_diffs)
        /\ ret.value.summary.fields_with_differences =
              Cardinality({ k \in 1..Len(ret.value.field_diffs) :
                              ~ret.value.field_diffs[k].is_unanimous })
        /\ ret.value.summary.total_fields > 0 =>
              ret.value.summary.unanimity_rate =
                 Round3(ret.value.summary.total_fields
                          - ret.value.summary.fields_with_differences,
                        ret.value.summary.total_fields)


(***************************************************************************)
(* DocumentChunker.chunk (document_parser.py:219-275) on its own.  A text  *)
(* is the sequence of its words; a word that ends in '.', '!' or '?' ends  *)
(* a sentence (_split_sentences, lines 277-282).  A chunk is the list of   *)
(* the sentences joined into its text, with its page_number; closed_by is  *)
(* history: the 0-based index of the last sentence of the chunk.           *)
(***************************************************************************)
\* the longest text, the largest chunk_size and the largest overlap of a call
MaxWords == 6
MaxChunkSize == 3
MaxOverlap == 2
\* a word inside a sentence and a word that ends one
ChunkerWords == {"word", "word."}

\* lines 277-282: re.split(r'(?<=[.!?])\s+', text), empty pieces dropped
RECURSIVE SplitFrom(_, _, _)
SplitFrom(words, i, sentence) ==
    IF i > Len(words)
    THEN IF sentence = <<>> THEN <<>> ELSE <<sentence>>
    ELSE IF words[i] = "word."
         THEN <<Append(sentence, words[i])>> \o SplitFrom(words, i + 1, <<>>)
         ELSE SplitFrom(words, i + 1, Append(sentence, words[i]))
_split_sentences(text) == SplitFrom(text, 1, <<>>)

\* the words of a list of sentences
RECURSIVE WordCount(_)
WordCount(sentences) ==
    IF sentences = <<>> THEN 0 ELSE Len(Head(sentences)) + WordCount(Tail(sentences))

\* lines 251-257: the sentences kept from the end of the chunk, back to the
\* first one with which they hold more than overlap words (all if none)
OverlapStart(current_chunk, overlap) ==
    IF WordCount(current_chunk) <= overlap THEN 1
    ELSE CHOOSE j \in 1..Len(current_chunk) :
            /\ WordCount(From(current_chunk, j)) > overlap
            /\ \A k \in (j + 1)..Len(current_chunk) :
                  WordCount(From(current_chunk, k)) <= overlap
OverlapSentences(current_chunk, overlap) ==
    From(current_chunk, OverlapStart(current_chunk, overlap))

\* lines 287-290: max(1, (sentence_index * 100) // max(1, total_sentences))
_estimate_page(sentence_index, total_sentences) ==
    IF (sentence_index * 100) \div (IF total_sentences < 1 THEN 1 ELSE total_sentences) < 1
    THEN 1
    ELSE (sentence_index * 100) \div (IF total_sentences < 1 THEN 1 ELSE total_sentences)

\* lines 241-248 and 266-273: the chunk saved for the sentences
NewChunk(current_chunk, page_number, closed_by) ==
    [sentences |-> current_chunk, word_count |-> WordCount(current_chunk),
     page_number |-> page_number, closed_by |-> closed_by]

\* lines 237-273: the loop from sentence i on (1-based; enumerate's i is
\* i - 1), and the final chunk, whose page_number is the local set at line
\* 238 and never assigned again
RECURSIVE ChunkFrom(_, _, _, _, _, _)
ChunkFrom(sentences, i, chunks, current_chunk, chunk_size, overlap) ==
    IF i > Len(sentences)
    THEN IF current_chunk # <<>>
         THEN Append(chunks, NewChunk(current_chunk, 1, Len(sentences) - 1))
         ELSE chunks
    ELSE IF /\ WordCount(current_chunk) + Len(sentences[i]) > chunk_size
            /\ current_chunk # <<>>
         THEN ChunkFrom(sentences, i + 1,
                        Append(chunks, NewChunk(current_chunk,
                                                _estimate_page(i - 1, Len(sentences)),
                                                i - 2)),
                        Append(OverlapSentences(current_chunk, overlap), sentences[i]),
                        chunk_size, overlap)
         ELSE ChunkFrom(sentences, i + 1, chunks, Append(current_chunk, sentences[i]),
                        chunk_size, overlap)

\* DocumentChunker(chunk_size, overlap).chunk(text)
chunk(text, chunk_size, overlap) ==
    ChunkFrom(_split_sentences(text), 1, <<>>, <<>>, chunk_size, overlap)

\* chunk returns
ReturnChunks ==
    /\ call.fn = "chunk" /\ ~ret.done
    /\ ret' = Returned(chunk(call.text, call.chunk_size, call.overlap))
    /\ UNCHANGED <<field_templates, templates_used, call, service_vars>>
    /\ UNCHANGED extractor_vars /\ UNCHANGED store_vars /\ UNCHANGED repo_vars

ChunkerNext == ReturnChunks
ChunkerInit ==
    /\ ExtractorIdle /\ StoreIdle /\ RepoIdle /\ TemplatesIdle /\ ServicesIdle
    /\ \E n \in 0..MaxWords, chunk_size \in 1..MaxChunkSize, overlap \in 0..MaxOverlap :
         \E text \in [1..n -> ChunkerWords] :
            call = [fn |-> "chunk", text |-> text, chunk_size |-> chunk_size,
                    overlap |-> overlap]
    /\ ret = NotReturned
ChunkerSpec == ChunkerInit /\ [][ChunkerNext]_vars

\* C17: for every text whose word count exceeds chunk_size,
\* DocumentChunker.chunk returns more than one chunk.
C17_LongTextHasSeveralChunks ==
    (call.fn = "chunk" /\ ret.done /\ Len(call.text) > call.chunk_size) =>
        Len(ret.value) > 1


(***************************************************************************)
(* The field_templates table (repository.py:286-348): templates are        *)
(* created, updated and read by the extraction endpoints.  The id of a     *)
(* template is its position in the table.                                  *)
(***************************************************************************)
\* templates created and updates of one template in one run
MaxTemplates == 2
MaxUpdates == 2
\* the field lists of the requests: the names of the fields
TemplateFieldLists == { <<"governing_law">>, <<"governing_law", "effective_date">> }

\* repository.py:286-303, create_field_template: version is 1 by default
\* (schema.py:143)
create_field_template(fields) ==
    /\ Len(field_templates) < MaxTemplates
    /\ field_templates' = Append(field_templates, [version |-> 1, fields |-> fields])
    /\ UNCHANGED templates_used

\* repository.py:323-348, update_field_template on an existing template:
\* the row's version is raised and its fields are overwritten when the
\* request's list is not empty
update_field_template(template_id, fields) ==
    /\ template_id \in 1..Len(field_templates)
    /\ field_templates[template_id].version <= MaxUpdates
    /\ field_templates' =
          [field_templates EXCEPT
              ![template_id] = [version |-> @.version + 1,
                                fields |-> IF fields # <<>> THEN fields ELSE @.fields]]
    /\ UNCHANGED templates_used

\* app.py:616-620 and 961-962: an extraction or re-extraction reads the
\* project's template with get_field_template (repository.py:305-311) and
\* is made with its fields
ExtractWithTemplate(template_id) ==
    /\ template_id \in 1..Len(field_templates)
    /\ templates_used' = templates_used \cup
          {[template_id |-> template_id,
            version |-> field_templates[template_id].version,
            fields |-> field_templates[template_id].fields]}
    /\ UNCHANGED field_templates

TemplateNext ==
    \/ \E fields \in TemplateFieldLists :
         /\ create_field_template(fields)
         /\ UNCHANGED <<call, ret, service_vars>>
         /\ UNCHANGED extractor_vars /\ UNCHANGED store_vars /\ UNCHANGED repo_vars
    \/ \E template_id \in 1..MaxTemplates, fields \in TemplateFieldLists \cup {<<>>} :
         /\ update_field_template(template_id, fields)
         /\ UNCHANGED <<call, ret, service_vars>>
         /\ UNCHANGED extractor_vars /\ UNCHANGED store_vars /\ UNCHANGED repo_vars
    \/ \E template_id \in 1..MaxTemplates :
         /\ ExtractWithTemplate(template_id)
         /\ UNCHANGED <<call, ret, service_vars>>
         /\ UNCHANGED extractor_vars /\ UNCHANGED store_vars /\ UNCHANGED repo_vars

TemplateInit == ExtractorIdle /\ StoreIdle /\ RepoIdle /\ OthersIdle
TemplateSpec == TemplateInit /\ [][TemplateNext]_vars

\* repository.py:305-311, get_field_template: the versions of a template
\* that can be read, with their field lists
ReadableVersions(template_id) ==
    { [version |-> field_templates[template_id].version,
       fields |-> field_templates[template_id].fields] }

\* C18: a template change creates a new version rather than mutating in
\* place.  Every version of a template that an extraction was made with
\* can still be read, with the field list it had then, and an update gives
\* the template the previous version number plus one.
C18_UsedVersionsStayReadable ==
    \A u \in templates_used :
        [version |-> u.version, fields |-> u.fields] \in ReadableVersions(u.template_id)


(***************************************************************************)
(* _normalize_value for DATE values and _validate_extraction on their own: *)
(* every call with the values below.                                       *)
(***************************************************************************)
\* the parts of a value in the form 'Month DD, YYYY'
DateMonths == { <<"F","e","b","r","u","a","r","y">>, <<"a","p","r","i","l">>, <<"M","a","y">> }
DateDays == { <<"0">>, <<"5">>, <<"0","7">>, <<"2","9">>, <<"3","0">>, <<"3","1">> }
DateSeparators == { <<","," ">>, <<" ">> }
DateYears == { <<"2","0","2","3">>, <<"2","0","2","4">>, <<"0","9","9","9">> }
\* the parts of a value in the form MM/DD/YYYY
SlashMonths == { <<"1">>, <<"1","2">>, <<"1","3">> }
SlashDays == { <<"2">>, <<"3","1">>, <<"4","5">> }
T_IsoInvalid == <<"2","0","2","4","-","1","3","-","4","5">>
T_PaddedIso == <<" ","2","0","2","4","-","0","1","-","1","5"," ">>
T_Or == <<" ","o","r"," ">>
MonthValue(month, day, sep, year) == month \o <<" ">> \o day \o sep \o year
SlashValue(month, day) == month \o <<"/">> \o day \o <<"/">> \o <<"2","0","2","4">>
\* the DATE values of the calls
DateValues ==
    { Str(MonthValue(month, day, sep, year)) :
        month \in DateMonths, day \in DateDays, sep \in DateSeparators, year \in DateYears }
    \cup { Str(SlashValue(month, day)) : month \in SlashMonths, day \in SlashDays }
    \cup { Str(MonthValue(month, <<"3","1">>, <<","," ">>, <<"2","0","2","4">>) \o T_Or \o T_Date) : month \in DateMonths }
    \cup { Null, Str(<<>>), Str(T_Date), Str(T_Dated), Str(T_IsoInvalid), Str(T_PaddedIso),
           Str(T_Other), Str(T_Texas) }


\* field_extractor.py:994-1035, _normalize_value returns
ReturnNormalized ==
    /\ call.fn = "_normalize_value" /\ ~ret.done
    /\ ret' = Returned(_normalize_value(call.value, call.field_type))
    /\ UNCHANGED <<field_templates, templates_used, call, service_vars>>
    /\ UNCHANGED extractor_vars /\ UNCHANGED store_vars /\ UNCHANGED repo_vars

NormalizerNext == ReturnNormalized
NormalizerInit ==
    /\ ExtractorIdle /\ StoreIdle /\ RepoIdle /\ TemplatesIdle /\ ServicesIdle
    /\ \E value \in DateValues :
          call = [fn |-> "_normalize_value", value |-> value, field_type |-> "DATE"]
    /\ ret = NotReturned
NormalizerSpec == NormalizerInit /\ [][NormalizerNext]_vars

\* one of the three patterns of lines 1002-1010 matches in the text
DatePatternMatches(s) ==
    \E i \in 1..Len(s) : SlashAt(s, i).ok \/ IsoAt(s, i) \/ MonthAt(s, i).ok
\* the text has the form YYYY-MM-DD
IsIsoForm(s) == Len(s) = 10 /\ IsoAt(s, 1)

\* C19: for every DATE value in which one of the three supported patterns
\* (MM/DD/YYYY, YYYY-MM-DD, 'Month DD, YYYY') matches, _normalize_value
\* returns a string of the form YYYY-MM-DD; a value that is already an ISO
\* date is returned unchanged.
C19_MatchingDateBecomesIso ==
    (call.fn = "_normalize_value" /\ ret.done /\ Truthy(call.value)) =>
        /\ DatePatternMatches(Strip(call.value.s)) =>
              (ret.value.kind = "str" /\ IsIsoForm(ret.value.s))
        /\ IsIsoForm(call.value.s) => ret.value = call.value



(***************************************************************************)
(* _validate_extraction on its own: every call with the values below.      *)
(***************************************************************************)
T_Usd100 == <<"U","S","D"," ","1","0","0">>
T_Hundred == <<"1","0","0">>
T_True == <<"T","r","u","e">>
T_Maybe == <<"m","a","y","b","e">>
ExtractedValues == { Null, Str(<<>>), Str(T_Texas) }
NormalizedValues ==
    { Null, Str(<<>>), Str(T_Date), Str(T_Dated), Str(T_IsoInvalid), Str(T_Texas),
      Str(S_USD), Str(T_Usd100), Str(T_Hundred), Str(S_true), Str(S_false), Str(T_True),
      Str(T_Maybe) }
ValidatedTypes == { "DATE", "CURRENCY", "BOOLEAN", "TEXT", "ENTITY", "NUMBER" }

\* field_extractor.py:1037-1070, _validate_extraction returns
ReturnValidation ==
    /\ call.fn = "_validate_extraction" /\ ~ret.done
    /\ ret' = Returned(_validate_extraction(call.extracted_value, call.normalized_value,
                                            call.field_type))
    /\ UNCHANGED <<field_templates, templates_used, call, service_vars>>
    /\ UNCHANGED extractor_vars /\ UNCHANGED store_vars /\ UNCHANGED repo_vars

ValidationNext == ReturnValidation
ValidationInit ==
    /\ ExtractorIdle /\ StoreIdle /\ RepoIdle /\ TemplatesIdle /\ ServicesIdle
    /\ \E e \in ExtractedValues, n \in NormalizedValues, t \in ValidatedTypes :
          call = [fn |-> "_validate_extraction", extracted_value |-> e,
                  normalized_value |-> n, field_type |-> t]
    /\ ret = NotReturned
ValidationSpec == ValidationInit /\ [][ValidationNext]_vars

\* the canonical form of a normalized value of the type: a text that begins
\* with YYYY-MM-DD, a text with USD and a number, 'true' or 'false'
IsCanonical(s, t) ==
    CASE t = "DATE" -> IsoAt(s, 1)
      [] t = "CURRENCY" ->
            Contains(S_USD, s) /\ \E i \in 1..Len(s) : IsNumChar(s[i])
      [] t = "BOOLEAN" -> s \in {S_true, S_false}
      [] OTHER -> TRUE
\* the factor, times 1000, as the claim states it
StatedFactor(e, n, t) ==
    IF ~Truthy(e) THEN 0
    ELSE IF ~Truthy(n) THEN 500
    ELSE IF t \in {"DATE", "CURRENCY", "BOOLEAN"}
         THEN (IF IsCanonical(n.s, t) THEN 1000 ELSE 600)
         ELSE 1000

\* C20: the validation factor returned by _validate_extraction is 0.0 when
\* there is no extracted value; 0.5 when there is a value but no normalized
\* value; for DATE, CURRENCY and BOOLEAN 1.0 when the normalized value is in
\* canonical form and 0.6 when it is not; 1.0 for every other field type with
\* a value.
C20_ValidationFactor ==
    (call.fn = "_validate_extraction" /\ ret.done) =>
        ret.value = StatedFactor(call.extracted_value, call.normalized_value, call.field_type)



(***************************************************************************)
(* _clean_extracted_value on its own: every call with the texts below and  *)
(* the field type TEXT.                                                    *)
(***************************************************************************)
\* what an answer may start with: an enumeration, a bullet, a label
CleanerPrefixes == { <<>>, <<"1","."," ">>, <<"i","v","."," ">>, <<"x",".">>, <<"T","i","t","l","e",":"," ">>, <<"n","a","m","e"," ">>, <<"2","."," ","-"," ">>, <<"d","a","t","e",":"," "," ">> }
\* what it may go on with
CleanerBodies == { <<"n","o","n","e">>, <<"n","/","a">>, <<"u","n","k","n","o","w","n">>, <<"n","o","t"," ","f","o","u","n","d">>, <<"p","a","g","e">>, <<"o","f">>, <<"a">>, <<"x">>, <<"t","e","x","a","s"," ","l","a","w">>, <<"T","e","x","a","s">>, <<"N","o","n","e",".">> }
CleanerTexts == { prefix \o body : prefix \in CleanerPrefixes, body \in CleanerBodies }
CleanerValues == { Null } \cup { Str(s) : s \in SampleTexts \cup CleanerTexts }

\* field_extractor.py:720-910, _clean_extracted_value returns
ReturnCleaned ==
    /\ call.fn = "_clean_extracted_value" /\ ~ret.done
    /\ ret' = Returned(_clean_extracted_value(call.value, call.field_type))
    /\ UNCHANGED <<field_templates, templates_used, call, service_vars>>
    /\ UNCHANGED extractor_vars /\ UNCHANGED store_vars /\ UNCHANGED repo_vars

CleanerNext == ReturnCleaned
CleanerInit ==
    /\ ExtractorIdle /\ StoreIdle /\ RepoIdle /\ TemplatesIdle /\ ServicesIdle
    /\ \E value \in CleanerValues :
          call = [fn |-> "_clean_extracted_value", value |-> value, field_type |-> "TEXT"]
    /\ ret = NotReturned
CleanerSpec == CleanerInit /\ [][CleanerNext]_vars

\* C21: for every raw input, a non-null result of _clean_extracted_value
\* with field type TEXT does not start with a lowercase letter and is not,
\* compared case-insensitively, one of the noise phrases.
C21_CleanedTextIsNoNoise ==
    (call.fn = "_clean_extracted_value" /\ ret.done /\ ret.value # Null) =>
        /\ ~(ret.value.s # <<>> /\ IsLowerChar(ret.value.s[1]))
        /\ Lower(ret.value.s) \notin noise_phrases



(***************************************************************************)
(* The tasks of the extract, evaluate and re-extract endpoints and their   *)
(* background runners (app.py:623-676, 779-837, 970-1002;                  *)
(* repository.py:554-598).  The three runners have one shape: PROCESSING,  *)
(* the call of the service, then COMPLETED with what it returned or FAILED *)
(* with str(e) of what it raised.  Starlette runs a runner after the       *)
(* response in a worker thread, so runners of different tasks interleave.  *)
(* The writes of update_task themselves are taken to succeed.  The service *)
(* call of an extraction reaches the provider calls of the extractor,      *)
(* which may never return (pc = "blocked" of the extractor above).         *)
(***************************************************************************)
MaxTasks == 2
TaskTypes == {"extract", "evaluate", "re-extract"}
\* what the service call of a runner returns, and str(e) of what it raises
RunResults == {"result"}
RunErrors == {"error"}
\* schema.py:238-240: the defaults of a task row
NewTask(task_type) ==
    [task_type |-> task_type, project_id |-> "p1", status |-> "QUEUED",
     result |-> "{}", error_message |-> "None"]
NotStarted == [pc |-> "queued", raised |-> FALSE, value |-> "None"]

\* repository.py:582-598, update_task(task_id, status=..., key=value)
update_task(table, task_id, status, key, value) ==
    IF task_id \in DOMAIN table
    THEN [table EXCEPT ![task_id] = [[@ EXCEPT !.status = status] EXCEPT ![key] = value]]
    ELSE table

\* app.py:623, 779, 970: task_service.create_task and background_tasks.add_task
create_task(task_type) ==
    /\ Len(tasks) < MaxTasks
    /\ tasks' = Append(tasks, NewTask(task_type))
    /\ runners' = Append(runners, NotStarted)
    /\ task_log' = Append(task_log, <<>>)

\* app.py:656, 808, 997: update_task(task_id, status='PROCESSING')
RunnerStarts(i) ==
    /\ i \in DOMAIN runners /\ runners[i].pc = "queued"
    /\ tasks' = update_task(tasks, i, "PROCESSING", "status", "PROCESSING")
    /\ runners' = [runners EXCEPT ![i].pc = "run"]
    /\ task_log' = [task_log EXCEPT ![i] = Append(@, "PROCESSING")]

\* app.py:658-663, 810-822, 998: the service call returns
RunReturns(i) ==
    /\ i \in DOMAIN runners /\ runners[i].pc = "run"
    /\ \E result \in RunResults :
          runners' = [runners EXCEPT ![i] = [pc |-> "returned", raised |-> FALSE,
                                              value |-> result]]
    /\ UNCHANGED <<tasks, task_log>>

\* app.py:670, 830, 1000: the service call raises
RunRaises(i) ==
    /\ i \in DOMAIN runners /\ runners[i].pc = "run"
    /\ \E e \in RunErrors :
          runners' = [runners EXCEPT ![i] = [pc |-> "raised", raised |-> TRUE, value |-> e]]
    /\ UNCHANGED <<tasks, task_log>>

\* app.py:658-663, 998: the service call of an extraction stays in a provider
\* call that never returns (field_extractor.py:280, 361-376, 455)
RunBlocks(i) ==
    /\ i \in DOMAIN runners /\ runners[i].pc = "run"
    /\ tasks[i].task_type \in {"extract", "re-extract"}
    /\ runners' = [runners EXCEPT ![i].pc = "blocked"]
    /\ UNCHANGED <<tasks, task_log>>

\* app.py:665-669, 824-828, 999: update_task(task_id, status='COMPLETED', result=result)
RunnerCompletes(i) ==
    /\ i \in DOMAIN runners /\ runners[i].pc = "returned"
    /\ tasks' = update_task(tasks, i, "COMPLETED", "result", runners[i].value)
    /\ runners' = [runners EXCEPT ![i].pc = "done"]
    /\ task_log' = [task_log EXCEPT ![i] = Append(@, "COMPLETED")]

\* app.py:672-676, 832-836, 1002: update_task(task_id, status='FAILED', error_message=str(e))
RunnerFails(i) ==
    /\ i \in DOMAIN runners /\ runners[i].pc = "raised"
    /\ tasks' = update_task(tasks, i, "FAILED", "error_message", runners[i].value)
    /\ runners' = [runners EXCEPT ![i].pc = "done"]
    /\ task_log' = [task_log EXCEPT ![i] = Append(@, "FAILED")]

ServicesOnly ==
    /\ UNCHANGED extractor_vars /\ UNCHANGED store_vars /\ UNCHANGED repo_vars
    /\ UNCHANGED template_vars /\ UNCHANGED pure_vars
    /\ UNCHANGED <<projects, chunk_rows, evaluations, reviews, row_status, retry, limiter>>

\* the steps of the runner of task i
RunnerStep(i) ==
    \/ RunnerStarts(i) /\ ServicesOnly
    \/ RunReturns(i) /\ ServicesOnly
    \/ RunRaises(i) /\ ServicesOnly
    \/ RunBlocks(i) /\ ServicesOnly
    \/ RunnerCompletes(i) /\ ServicesOnly
    \/ RunnerFails(i) /\ ServicesOnly

TaskNext ==
    \/ \E task_type \in TaskTypes : create_task(task_type) /\ ServicesOnly
    \/ \E i \in 1..MaxTasks : RunnerStep(i)

TaskInit == ExtractorIdle /\ StoreIdle /\ RepoIdle /\ OthersIdle
TaskSpec == TaskInit /\ [][TaskNext]_vars
\* every runner that was added is run as far as it can go
TaskFairSpec == TaskSpec /\ \A i \in 1..MaxTasks : WF_vars(RunnerStep(i))

Terminal == {"COMPLETED", "FAILED"}
\* the writes of one runner, as far as it got
RunnerWrites == { <<>>, <<"PROCESSING">>, <<"PROCESSING", "COMPLETED">>,
                  <<"PROCESSING", "FAILED">> }
\* a step creates tasks QUEUED, moves a status only QUEUED -> PROCESSING ->
\* COMPLETED or FAILED, and leaves a finished task as it is
TaskStep ==
    /\ \A i \in DOMAIN tasks' \ DOMAIN tasks : tasks'[i].status = "QUEUED"
    /\ \A i \in DOMAIN tasks :
          /\ tasks'[i].status # tasks[i].status =>
                << tasks[i].status, tasks'[i].status >> \in
                    { <<"QUEUED", "PROCESSING">>, <<"PROCESSING", "COMPLETED">>,
                      <<"PROCESSING", "FAILED">> }
          /\ tasks[i].status \in Terminal =>
                (tasks'[i] = tasks[i] /\ task_log'[i] = task_log[i])
\* a finished task holds the outcome of its run
TaskOutcome ==
    \A i \in DOMAIN tasks :
        /\ task_log[i] \in RunnerWrites
        /\ tasks[i].status = "COMPLETED" =>
              (~runners[i].raised /\ tasks[i].result = runners[i].value)
        /\ tasks[i].status = "FAILED" =>
              (runners[i].raised /\ tasks[i].error_message = runners[i].value)
        /\ runners[i].pc = "done" => tasks[i].status \in Terminal

\* C22: every task created by the extract, evaluate and re-extract
\* endpoints starts QUEUED, is moved by its runner to PROCESSING and then to
\* exactly one of COMPLETED (with the result) or FAILED (with the error
\* message, exactly when the run raised), eventually reaches one of these
\* two statuses, and is not written again by the runner afterwards.
C22_TaskLifecycle ==
    /\ [][TaskStep]_vars
    /\ []TaskOutcome
    /\ \A i \in 1..MaxTasks :
          [](Len(tasks) >= i => <>(Len(tasks) >= i /\ tasks[i].status \in Terminal))


(***************************************************************************)
(* DatabaseRepository.delete_project (repository.py:133-156) on the tables *)
(* that the extraction jobs and create_annotation above fill.  The         *)
(* primary key of a document is its position in documents, so a deleted    *)
(* document leaves DeletedDocument at its position.  session.delete        *)
(* follows the cascades of the relationships of schema.py: Project to      *)
(* documents, extractions, review_states, evaluations and tasks (lines     *)
(* 88-93), Document to chunks, citations and extractions (112-114),        *)
(* ExtractionResult to citations and review_state (160-161).  Annotation   *)
(* (219-228) is in no relationship: it only holds the foreign key          *)
(* extraction_id, without ON DELETE.                                       *)
(***************************************************************************)
DeletedDocument == [project_id |-> "deleted", content_text |-> "", status |-> "DELETED"]
UnknownProject == "unknown"
DocumentsOf(p) == { d \in DOMAIN documents : documents[d].project_id = p }
ExtractionsOf(p) ==
    { e \in extractions : e.project_id = p \/ e.document_id \in DocumentsOf(p) }
IdsOf(rows) == { r.id : r \in rows }
\* the annotations that hold the id of one of the extractions
AnnotationsOf(exs) == { a \in annotations : a.extraction_id \in IdsOf(exs) }

\* lines 143-148: the tasks are deleted by query, the project and what its
\* cascades reach by session.delete, and the transaction commits
DeleteCascade(p, docs, exs) ==
    /\ projects' = projects \ {p}
    /\ tasks' = SelectSeq(tasks, LAMBDA t : t.project_id # p)
    /\ documents' = [d \in DOMAIN documents |->
                        IF d \in docs THEN DeletedDocument ELSE documents[d]]
    /\ chunk_rows' = { c \in chunk_rows : c.document_id \notin docs }
    /\ extractions' = extractions \ exs
    /\ citations' = { c \in citations :
                        c.document_id \notin docs /\ c.extraction_id \notin IdsOf(exs) }
    /\ review_states' = { r \in review_states :
                            r.project_id # p /\ r.extraction_id \notin IdsOf(exs) }
    /\ evaluations' = { v \in evaluations : v.project_id # p }
    /\ UNCHANGED annotations

TablesUnchanged ==
    UNCHANGED <<projects, tasks, documents, chunk_rows, extractions, citations,
                review_states, evaluations, annotations>>

\* repository.py:133-156, delete_project, between two jobs.  When an
\* annotation holds the id of an extraction of the project, the DELETE of
\* that extraction either fails on the foreign key (PRAGMA foreign_keys=ON,
\* line 140, in force: IntegrityError, rollback at line 152, raise) or, on
\* a connection where the key is not enforced, goes through and leaves the
\* annotation behind.
delete_project(project_id) ==
    /\ job.phase = "idle" /\ call = NoCall
    /\ call' = [fn |-> "delete_project", project_id |-> project_id]
    /\ IF project_id \notin projects
       THEN ret' = Returned("False") /\ TablesUnchanged               \* line 149
       ELSE \E docs \in {DocumentsOf(project_id)}, exs \in {ExtractionsOf(project_id)},
               enforced \in BOOLEAN :
               IF enforced /\ AnnotationsOf(exs) # {}
               THEN ret' = Returned("IntegrityError") /\ TablesUnchanged \* 150-153
               ELSE ret' = Returned("True") /\ DeleteCascade(project_id, docs, exs)
    /\ UNCHANGED <<next_row, job, jobs, deleted_count, removed, runners, task_log,
                   reviews, row_status, retry, limiter>>
    /\ UNCHANGED extractor_vars /\ UNCHANGED store_vars /\ UNCHANGED template_vars

ProjectNext ==
    \/ RepoNext
    \/ \E project_id \in Projects \cup {UnknownProject} : delete_project(project_id)

\* both projects exist; the first document has an evaluation and a task of
\* its project, and every document with text has a chunk
ProjectInit ==
    /\ ExtractorIdle /\ StoreIdle /\ TemplatesIdle /\ PureIdle
    /\ documents \in DocumentTables /\ extractions = {} /\ citations = {}
    /\ review_states = {} /\ annotations = {} /\ next_row = 1
    /\ job = NoJob /\ jobs = 0 /\ deleted_count = 0 /\ removed = NothingRemoved
    /\ projects = Projects
    /\ chunk_rows = { [id |-> d, document_id |-> d] :
                        d \in { n \in DOMAIN documents : documents[n].content_text # "" } }
    /\ evaluations = { [id |-> 1, project_id |-> documents[1].project_id, document_id |-> 1] }
    /\ tasks = << [NewTask("extract") EXCEPT !.project_id = documents[1].project_id] >>
    /\ runners = <<>> /\ task_log = <<>>
    /\ reviews = <<>> /\ row_status = <<>> /\ retry = NotWrapped
    /\ limiter = NoLimiter
ProjectSpec == ProjectInit /\ [][ProjectNext]_vars

\* no row of project p is left in the tables given; ids are the ids of the
\* extractions the project had
NothingLeft(p, docs, ids, projs, tsks, docrows, chs, exs, cits, revs, evals, anns) ==
    /\ p \notin projs
    /\ \A i \in DOMAIN tsks : tsks[i].project_id # p
    /\ \A d \in DOMAIN docrows : docrows[d].project_id # p
    /\ \A c \in chs : c.document_id \notin docs
    /\ \A e \in exs : e.id \notin ids /\ e.project_id # p
    /\ \A c \in cits : c.extraction_id \notin ids /\ c.document_id \notin docs
    /\ \A r \in revs : r.extraction_id \notin ids /\ r.project_id # p
    /\ \A v \in evals : v.project_id # p
    /\ \A a \in anns : a.extraction_id \notin ids

\* C23: delete_project on an existing project returns True and afterwards
\* the project and all its related data are gone (no document, chunk,
\* extraction, citation, review state, annotation, evaluation or task of
\* that project remains), also when its extractions carry annotations; on an
\* unknown id it returns False and changes nothing.
C23_DeleteProjectDeletesAll ==
    [][ (call = NoCall /\ call'.fn = "delete_project") =>
           IF call'.project_id \in projects
           THEN /\ ret'.value = "True"
                /\ NothingLeft(call'.project_id, DocumentsOf(call'.project_id),
                               IdsOf(ExtractionsOf(call'.project_id)),
                               projects', tasks', documents', chunk_rows', extractions',
                               citations', review_states', evaluations', annotations')
           ELSE ret'.value = "False" /\ TablesUnchanged ]_vars


\* C24: every chunk emitted by DocumentChunker.chunk that contains two or
\* more sentences has at most chunk_size words, including the sentences
\* re-included as overlap; only a chunk of one single sentence may exceed it.
C24_SeveralSentencesFitChunkSize ==
    (call.fn = "chunk" /\ ret.done) =>
        \A k \in 1..Len(ret.value) :
            Len(ret.value[k].sentences) >= 2 => ret.value[k].word_count <= call.chunk_size

\* C25: the page_number of every chunk, including the final chunk, is the
\* interpolation estimate of the position of the sentence that closed it, so
\* page numbers never decrease along the chunk order of a document.
C25_PageNumbersFollowSentences ==
    (call.fn = "chunk" /\ ret.done) =>
        /\ \A k \in 1..Len(ret.value) :
              ret.value[k].page_number =
                 _estimate_page(ret.value[k].closed_by, Len(_split_sentences(call.text)))
        /\ \A k \in 1..(Len(ret.value) - 1) :
              ret.value[k].page_number <= ret.value[k + 1].page_number


(***************************************************************************)
(* ReviewService.update_extraction_review (service_orchestrator.py:371-    *)
(* 433) behind PUT /extractions/{id}/review (app.py:681-698).  A call is   *)
(* four repository calls, each a session and a transaction of its own:     *)
(* get_extraction, list_pending_reviews, create_review_state when no       *)
(* pending review state of the extraction was listed, update_review_state, *)
(* update_extraction.  The calls run beside one another and beside a       *)
(* re-extraction, one repository call at a time.                           *)
(***************************************************************************)
\* calls of update_extraction_review in one run
MaxReviews == 2
\* the statuses a reviewer sets
ReviewStatuses == {"CONFIRMED", "REJECTED", "MANUAL_UPDATED"}

\* repository.py:376: an extraction is created EXTRACTED
ExtractionStatusOf(id) ==
    IF id \in DOMAIN row_status THEN row_status[id] ELSE "EXTRACTED"
\* repository.py:493: a review state is created PENDING
ReviewStatusOf(id) ==
    IF id \in DOMAIN row_status THEN row_status[id] ELSE "PENDING"
\* the review states of an extraction
ReviewStatesOf(extraction_id) ==
    { r \in review_states : r.extraction_id = extraction_id }

\* the call at position c goes on at pc
GoOn(c, at) == reviews' = [reviews EXCEPT ![c].pc = at]
\* it ends with an exception, which the endpoint answers with 400
\* (app.py:696-698)
Raise(c, error) == reviews' = [reviews EXCEPT ![c].pc = "raised", ![c].error = error]
ReviewTablesUnchanged == UNCHANGED <<row_status, repo_vars>>

\* app.py:681-695: the request arrives
review_extraction(extraction_id, status) ==
    /\ Len(reviews) < MaxReviews
    /\ reviews' = Append(reviews,
          [extraction_id |-> extraction_id, status |-> status, pc |-> "get_extraction",
           project_id |-> "none", review_id |-> 0, error |-> "none"])
    /\ ReviewTablesUnchanged

\* service_orchestrator.py:382-384, repository.py:386-394
get_extraction(c) ==
    /\ reviews[c].pc = "get_extraction"
    /\ \E found \in {{ e \in extractions : e.id = reviews[c].extraction_id }} :
         IF found = {}
         THEN Raise(c, "ValueError")
         ELSE reviews' = [reviews EXCEPT ![c].pc = "list_pending_reviews",
                                         ![c].project_id = (CHOOSE e \in found : TRUE).project_id]
    /\ ReviewTablesUnchanged

\* repository.py:529-540: the review states of the project that are PENDING
list_pending_reviews(project_id) ==
    { r \in review_states : r.project_id = project_id /\ ReviewStatusOf(r.id) = "PENDING" }

\* service_orchestrator.py:387-391: the review state is looked for among
\* the pending ones of the project
FindReviewState(c) ==
    /\ reviews[c].pc = "list_pending_reviews"
    /\ \E found \in {{ r \in list_pending_reviews(reviews[c].project_id) :
                         r.extraction_id = reviews[c].extraction_id }} :
         IF found = {}
         THEN GoOn(c, "create_review_state")
         ELSE reviews' = [reviews EXCEPT ![c].pc = "update_review_state",
                                         ![c].review_id = (CHOOSE r \in found : TRUE).id]
    /\ ReviewTablesUnchanged

\* service_orchestrator.py:393-399, repository.py:480-500,
\* create_review_state: the INSERT fails on the unique key of extraction_id
\* (schema.py:203) when the extraction has a review state already, and on
\* the foreign key, where the database enforces it, when the extraction is
\* gone; otherwise the row is there, under a key no other row has (uuid4 in
\* the code, here the negative of the extraction's key)
create_review_state(c) ==
    /\ reviews[c].pc = "create_review_state"
    /\ \E enforced \in BOOLEAN :
         IF \/ ReviewStatesOf(reviews[c].extraction_id) # {}
            \/ enforced /\ reviews[c].extraction_id \notin { e.id : e \in extractions }
         THEN /\ Raise(c, "IntegrityError")
              /\ UNCHANGED review_states
         ELSE /\ review_states' = review_states \cup
                    {[id |-> 0 - reviews[c].extraction_id, project_id |-> reviews[c].project_id,
                      extraction_id |-> reviews[c].extraction_id]}
              /\ reviews' = [reviews EXCEPT ![c].pc = "update_review_state",
                                            ![c].review_id = 0 - reviews[c].extraction_id]
    /\ UNCHANGED <<row_status, documents, extractions, citations, annotations, next_row,
                   job, jobs, deleted_count, removed>>

\* service_orchestrator.py:402-414, repository.py:510-527,
\* update_review_state: the status is written when the row is still there;
\* None is returned when it is not
update_review_state(c) ==
    /\ reviews[c].pc = "update_review_state"
    /\ IF \E r \in review_states : r.id = reviews[c].review_id
       THEN /\ row_status' = (reviews[c].review_id :> reviews[c].status) @@ row_status
            /\ GoOn(c, "update_extraction")
       ELSE /\ UNCHANGED row_status
            /\ reviews' = [reviews EXCEPT ![c].pc = "update_extraction", ![c].review_id = 0]
    /\ UNCHANGED repo_vars

\* service_orchestrator.py:417-429, repository.py:416-435, update_extraction,
\* and the return: the status is written when the extraction is still
\* there; the result is built from the review state, which fails on None
update_extraction(c) ==
    /\ reviews[c].pc = "update_extraction"
    /\ IF \E e \in extractions : e.id = reviews[c].extraction_id
       THEN row_status' = (reviews[c].extraction_id :> reviews[c].status) @@ row_status
       ELSE UNCHANGED row_status
    /\ IF reviews[c].review_id = 0
       THEN Raise(c, "AttributeError")
       ELSE GoOn(c, "returned")
    /\ UNCHANGED repo_vars

ReviewOnly ==
    /\ UNCHANGED extractor_vars /\ UNCHANGED store_vars
    /\ UNCHANGED template_vars /\ UNCHANGED pure_vars
    /\ UNCHANGED <<tasks, runners, task_log, projects, chunk_rows, evaluations, retry,
                   limiter>>

\* the repository calls of the calls that have arrived
ReviewSteps ==
    \/ \E c \in 1..MaxReviews : c <= Len(reviews) /\ get_extraction(c) /\ ReviewOnly
    \/ \E c \in 1..MaxReviews : c <= Len(reviews) /\ FindReviewState(c) /\ ReviewOnly
    \/ \E c \in 1..MaxReviews : c <= Len(reviews) /\ create_review_state(c) /\ ReviewOnly
    \/ \E c \in 1..MaxReviews : c <= Len(reviews) /\ update_review_state(c) /\ ReviewOnly
    \/ \E c \in 1..MaxReviews : c <= Len(reviews) /\ update_extraction(c) /\ ReviewOnly

\* the calls alone, with no job beside them
ReviewNext ==
    \/ \E e \in IssuedExtractionIds, status \in ReviewStatuses :
         review_extraction(e, status) /\ ReviewOnly
    \/ ReviewSteps

\* one project with one document, extracted once (extract_fields_for_document
\* has stored an extraction, a review state and a citation per field); one
\* more job can be started
ReviewInit ==
    /\ ExtractorIdle /\ StoreIdle /\ OthersIdle
    /\ documents = << [IngestDocument("p1", TRUE) EXCEPT !.status = "EXTRACTED"] >>
    /\ extractions =
          { [id |-> 1 + RowsPerField * (i - 1), project_id |-> "p1", document_id |-> 1,
             field_name |-> TemplateFields[i]] : i \in 1..Len(TemplateFields) }
    /\ review_states =
          { [id |-> 2 + RowsPerField * (i - 1), project_id |-> "p1",
             extraction_id |-> 1 + RowsPerField * (i - 1)] : i \in 1..Len(TemplateFields) }
    /\ citations =
          { [id |-> 3 + RowsPerField * (i - 1), document_id |-> 1,
             extraction_id |-> 1 + RowsPerField * (i - 1)] : i \in 1..Len(TemplateFields) }
    /\ annotations = {} /\ next_row = 1 + RowsPerField * Len(TemplateFields)
    /\ job = NoJob /\ jobs = MaxJobs - 1 /\ deleted_count = 0 /\ removed = NothingRemoved
ReviewSpec == ReviewInit /\ [][ReviewNext]_vars


\* The requests that arrive while a re-extraction of the project runs in the
\* background (app.py:977-1002: the endpoint answers at once and
\* _run_re_extraction runs as a background task).
RepoOnly == UNCHANGED extractor_vars /\ UNCHANGED store_vars /\ OthersUnchanged
Running == job.phase # "idle"
ConcurrentNext ==
    \/ re_extract_project("p1") /\ RepoOnly
    \/ delete_extractions_for_project /\ RepoOnly
    \/ extract_fields_for_document /\ RepoOnly
    \/ JobReturns /\ RepoOnly
    \/ \E e \in IssuedExtractionIds : Running /\ create_annotation(e) /\ RepoOnly
    \/ \E e \in IssuedExtractionIds, status \in ReviewStatuses :
         Running /\ review_extraction(e, status) /\ ReviewOnly
    \/ ReviewSteps
ConcurrentSpec == ReviewInit /\ [][ConcurrentNext]_vars

\* the calls that have come to their end, and the jobs too
Finished(c) == reviews[c].pc \in {"returned", "raised"}
AllFinished == job = NoJob /\ \A c \in 1..Len(reviews) : Finished(c)

\* C26: after every update_extraction_review call that returns, the status
\* of the extraction and the status of its review state are equal, for
\* every interleaving of two review calls on the same extraction.  Stated
\* for the rows that exist when the call returns.
C26_ReviewAndExtractionStatusAgree ==
    [][ \A c \in 1..MaxReviews :
          (c <= Len(reviews) /\ reviews[c].pc # "returned" /\ reviews'[c].pc = "returned") =>
              \A e \in extractions' : \A r \in review_states' :
                  (e.id = reviews[c].extraction_id /\ r.extraction_id = e.id) =>
                      ExtractionStatusOf(e.id)' = ReviewStatusOf(r.id)'
      ]_vars

\* C27: update_extraction_review can be applied again to an extraction that
\* was already reviewed.  When the review state of the extraction is no
\* longer PENDING, the call finds that review state and goes on to update
\* it, and no extraction ever has more than one review state.
C27_ReviewedExtractionIsReviewedAgain ==
    /\ [][ \A c \in 1..MaxReviews :
             (c <= Len(reviews) /\ reviews[c].pc = "list_pending_reviews"
                /\ reviews'[c].pc # "list_pending_reviews") =>
                 \A r \in ReviewStatesOf(reviews[c].extraction_id) :
                     ReviewStatusOf(r.id) # "PENDING" =>
                         /\ reviews'[c].pc = "update_review_state"
                         /\ reviews'[c].review_id = r.id
         ]_vars
    /\ [](\A r1 \in review_states : \A r2 \in review_states :
             r1.extraction_id = r2.extraction_id => r1 = r2)

\* C28: for every interleaving of a background re-extraction of a project
\* with create_annotation and update_extraction_review requests on the
\* extractions of the project, once all of them have finished no annotation
\* and no review state refers to an extraction that was deleted.
C28_NoOrphansAfterConcurrentRequests ==
    AllFinished =>
        \A r \in annotations \cup review_states :
            r.extraction_id \in { e.id : e \in extractions }


(***************************************************************************)
(* retry_on_lock (repository.py:22-40): the wrapper around delete_project, *)
(* create_document and create_document_chunk.  A call of the wrapper is    *)
(* taken attempt by attempt; what the wrapped function does at each        *)
(* attempt (return a value, raise an error) is chosen freely.              *)
(***************************************************************************)
\* the largest max_retries taken, which is the default of the decorator
MaxRetries == 5
\* delay, in milliseconds (the default is 1.0 s)
Delays == {0, 500, 1000}
T_DatabaseIsLocked == <<"d","a","t","a","b","a","s","e"," ","i","s"," ","l","o","c","k","e","d">>
T_SqliteLocked ==
    <<"(","s","q","l","i","t","e","3",".","O","p","e","r","a","t","i","o","n","a","l","E","r","r","o","r",")"," ","d","a","t","a","b","a","s","e"," ","i","s"," ","l","o","c","k","e","d">>
T_TableLocked == <<"d","a","t","a","b","a","s","e"," ","t","a","b","l","e"," ","i","s"," ","l","o","c","k","e","d">>
Value(v) == [kind |-> "value", value |-> v]
Error(kind, message) == [kind |-> kind, message |-> message]
\* what an attempt of the wrapped function ends with
Outcomes ==
    { Value("a"), Value("b"),
      Error("OperationalError", T_SqliteLocked),
      Error("OperationalError", T_TableLocked),
      Error("ValueError", T_DatabaseIsLocked) }

\* every error is taken for a lock
AnyError(outcome) == outcome.kind # "value"
\* repository.py:31-32: except OperationalError, "database is locked" in str(e)
IsLockError(outcome) ==
    outcome.kind = "OperationalError" /\ Contains(T_DatabaseIsLocked, outcome.message)

\* repository.py:26-27: the wrapper is called
wrapper(max_retries, delay) ==
    /\ retry.pc = "idle"
    /\ retry' = [pc |-> "calling", max_retries |-> max_retries, delay |-> delay,
                 retries |-> 0, seen |-> <<>>, pauses |-> <<>>]

\* repository.py:30: the attempt returns and so does the wrapper
AttemptReturns(outcome) ==
    /\ retry.pc = "calling" /\ outcome.kind = "value"
    /\ retry' = [retry EXCEPT !.pc = "returned", !.seen = Append(@, outcome)]

\* repository.py:31-38: the attempt raises; a lock error is retried after a
\* pause while retries < max_retries, anything else leaves the wrapper (an
\* exception that is no OperationalError is not caught at all)
AttemptRaises(outcome) ==
    /\ retry.pc = "calling" /\ outcome.kind # "value"
    /\ IF IsLockError(outcome) /\ retry.retries < retry.max_retries
       THEN retry' = [retry EXCEPT !.pc = "sleeping", !.seen = Append(@, outcome),
                                   !.retries = @ + 1,
                                   !.pauses = Append(@, retry.delay * (retry.retries + 1))]
       ELSE retry' = [retry EXCEPT !.pc = "raised", !.seen = Append(@, outcome)]

\* repository.py:36-37: time.sleep returns and the loop goes on
SleepReturns ==
    /\ retry.pc = "sleeping"
    /\ retry' = [retry EXCEPT !.pc = "calling"]

RetryOnly ==
    /\ UNCHANGED extractor_vars /\ UNCHANGED store_vars /\ UNCHANGED repo_vars
    /\ UNCHANGED template_vars /\ UNCHANGED pure_vars
    /\ UNCHANGED <<tasks, runners, task_log, projects, chunk_rows, evaluations,
                   reviews, row_status, limiter>>
RetryNext ==
    \/ \E max_retries \in 0..MaxRetries, delay \in Delays :
         wrapper(max_retries, delay) /\ RetryOnly
    \/ \E outcome \in Outcomes : AttemptReturns(outcome) /\ RetryOnly
    \/ \E outcome \in Outcomes : AttemptRaises(outcome) /\ RetryOnly
    \/ SleepReturns /\ RetryOnly
RetryInit == ExtractorIdle /\ StoreIdle /\ RepoIdle /\ OthersIdle
RetrySpec == RetryInit /\ [][RetryNext]_vars

\* the attempts made so far and the last of them
Attempts == Len(retry.seen)
LastAttempt == retry.seen[Len(retry.seen)]
\* the attempts that were followed by a pause: all of them while the loop
\* goes on, all but the last once the wrapper has returned or raised
Retried == IF retry.pc \in {"calling", "sleeping"} THEN Attempts ELSE Attempts - 1

\* C29: an operation wrapped by retry_on_lock is attempted at most
\* max_retries + 1 times; every attempt that was retried ended with an
\* OperationalError whose message contains 'database is locked', and the
\* pause after the i-th attempt was delay x i; when the wrapper raises, it
\* raises what the last attempt raised, which is another error or the lock
\* error of attempt max_retries + 1; when it returns, the last attempt, the
\* first that succeeded, returned a value.
C29_RetryOnLock ==
    retry.pc # "idle" =>
        /\ Attempts <= retry.max_retries + 1
        /\ \A i \in 1..Retried :
              /\ retry.seen[i].kind = "OperationalError"
              /\ Contains(T_DatabaseIsLocked, retry.seen[i].message)
        /\ retry.pauses = [i \in 1..Retried |-> retry.delay * i]
        /\ retry.pc = "raised" =>
              /\ LastAttempt.kind # "value"
              /\ \/ LastAttempt.kind # "OperationalError"
                 \/ ~Contains(T_DatabaseIsLocked, LastAttempt.message)
                 \/ Attempts = retry.max_retries + 1
        /\ retry.pc = "returned" => LastAttempt.kind = "value"
        /\ retry.pc = "calling" => Attempts <= retry.max_retries

\* C29, witness: with the default max_retries the wrapper has returned the
\* value of the sixth attempt, after five lock errors and five pauses.
C29_Witness ==
    /\ retry.pc = "returned" /\ retry.max_retries = MaxRetries
    /\ Attempts = retry.max_retries + 1 /\ retry.delay > 0
    /\ Len(retry.pauses) = retry.max_retries


(***************************************************************************)
(* RateLimitMiddleware (app.py:74-111), installed at app.py:129-131.       *)
(* dispatch runs without a break from the path test to the append (there   *)
(* is no await between them), then waits for call_next; the headers are    *)
(* written when call_next has returned, and other requests are dispatched  *)
(* in between.  The clock is time.time(), read in whole seconds here and   *)
(* taken as non-decreasing.                                                *)
(***************************************************************************)
\* the largest max_requests and window_seconds the middleware is built with
MaxLimit == 2
MaxWindow == 2
\* the seconds the clock advances and the requests that arrive in one run
MaxTime == 2
MaxServed == 3
\* app.py:88: request.client.host, or "unknown" for a request without client
ClientIps == {"10.0.0.1", "unknown"}
\* app.py:85: the paths that are not limited
health_paths == {"/health", "/api/v1/health"}
Paths == health_paths \cup {"/projects"}

\* no entry is dropped
KeepOldEntries(times, now, window) == times
\* app.py:92-94: the entries of the client younger than the window
CleanOldEntries(times, now, window) == SelectSeq(times, LAMBDA t : now - t < window)

\* the request is appended to the requests seen
Serve(client_ip, path, status, counted) ==
    Append(limiter.served,
           [client_ip |-> client_ip, path |-> path, at |-> limiter.now,
            status |-> status, counted |-> counted, remaining |-> <<>>])

\* app.py:83-106, dispatch up to call_next: a health check is passed on and
\* answered as call_next answers it (lines 85-86), before the address of
\* the client is read; for any other request the old entries of the client are
\* dropped, the request is answered 429 when max_requests entries are left
\* (lines 96-103) and appended and passed on otherwise (lines 105-106)
dispatch(client_ip, path) ==
    /\ limiter.max_requests > 0 /\ Len(limiter.served) < MaxServed
    /\ IF path \in health_paths
       THEN limiter' = [limiter EXCEPT !.served = Serve("unread", path, "200", FALSE)]
       ELSE \E cleaned \in {CleanOldEntries(limiter.requests[client_ip], limiter.now,
                                            limiter.window)} :
              IF Len(cleaned) >= limiter.max_requests
              THEN limiter' = [limiter EXCEPT
                                 !.requests[client_ip] = cleaned,
                                 !.served = Serve(client_ip, path, "429", FALSE)]
              ELSE limiter' = [limiter EXCEPT
                                 !.requests[client_ip] = Append(cleaned, limiter.now),
                                 !.served = Serve(client_ip, path, "pending", TRUE)]

\* app.py:106-111: call_next returns; the response gets
\* X-RateLimit-Remaining from the list of the client as it is then
call_next_returns(k) ==
    /\ limiter.max_requests > 0 /\ k <= Len(limiter.served)
    /\ limiter.served[k].status = "pending"
    /\ limiter' = [limiter EXCEPT
          !.served[k].status = "200",
          !.served[k].remaining =
              << limiter.max_requests
                   - Len(limiter.requests[limiter.served[k].client_ip]) >>]

\* a second passes
Tick ==
    /\ limiter.max_requests > 0 /\ limiter.now < MaxTime
    /\ limiter' = [limiter EXCEPT !.now = @ + 1]

RateOnly ==
    /\ UNCHANGED extractor_vars /\ UNCHANGED store_vars /\ UNCHANGED repo_vars
    /\ UNCHANGED template_vars /\ UNCHANGED pure_vars
    /\ UNCHANGED <<tasks, runners, task_log, projects, chunk_rows, evaluations,
                   reviews, row_status, retry>>
RateNext ==
    \/ \E client_ip \in ClientIps, path \in Paths : dispatch(client_ip, path) /\ RateOnly
    \/ \E k \in 1..MaxServed : call_next_returns(k) /\ RateOnly
    \/ Tick /\ RateOnly
\* app.py:77-81, __init__
RateInit ==
    /\ ExtractorIdle /\ StoreIdle /\ RepoIdle /\ TemplatesIdle /\ PureIdle
    /\ tasks = <<>> /\ runners = <<>> /\ task_log = <<>>
    /\ projects = {} /\ chunk_rows = {} /\ evaluations = {}
    /\ reviews = <<>> /\ row_status = <<>> /\ retry = NotWrapped
    /\ \E max_requests \in 1..MaxLimit, window_seconds \in 1..MaxWindow :
         limiter = [max_requests |-> max_requests, window |-> window_seconds, now |-> 0,
                    requests |-> [client_ip \in ClientIps |-> <<>>], served |-> <<>>]
RateSpec == RateInit /\ [][RateNext]_vars

\* the requests seen that were admitted: not a health check, not answered 429
Admitted(k) ==
    limiter.served[k].path \notin health_paths /\ limiter.served[k].status # "429"
\* the requests of the client of request k admitted before it during the
\* window that precedes it
AdmittedBefore(k) ==
    { j \in 1..(k - 1) :
        /\ Admitted(j) /\ limiter.served[j].client_ip = limiter.served[k].client_ip
        /\ limiter.served[k].at - limiter.served[j].at < limiter.window }
\* the requests of a client admitted in the window that starts at second a
AdmittedIn(client_ip, a) ==
    { k \in 1..Len(limiter.served) :
        /\ Admitted(k) /\ limiter.served[k].client_ip = client_ip
        /\ a <= limiter.served[k].at /\ limiter.served[k].at < a + limiter.window }

\* C30: RateLimitMiddleware admits, for each client IP, at most max_requests
\* requests that are no health checks within any window of window_seconds;
\* such a request is answered 429 exactly when max_requests requests of that
\* IP were admitted during the window that precedes it; the entries kept
\* for a client are arrival times of admitted requests only, so rejected
\* requests and health checks are not counted; a health check is never
\* answered 429; and X-RateLimit-Remaining is never negative.
C30_RateLimit ==
    limiter.max_requests > 0 =>
        /\ \A client_ip \in ClientIps : \A a \in 0..MaxTime :
              Cardinality(AdmittedIn(client_ip, a)) <= limiter.max_requests
        /\ \A k \in 1..Len(limiter.served) :
              /\ limiter.served[k].path \in health_paths =>
                    /\ limiter.served[k].status # "429"
                    /\ ~limiter.served[k].counted
              /\ limiter.served[k].path \notin health_paths =>
                    /\ limiter.served[k].status = "429"
                         <=> Cardinality(AdmittedBefore(k)) = limiter.max_requests
                    /\ limiter.served[k].counted <=> limiter.served[k].status # "429"
              /\ \A i \in 1..Len(limiter.served[k].remaining) :
                    limiter.served[k].remaining[i] >= 0
        /\ \A client_ip \in ClientIps :
              /\ \A i \in 1..Len(limiter.requests[client_ip]) :
                    \E k \in 1..Len(limiter.served) :
                        /\ Admitted(k) /\ limiter.served[k].client_ip = client_ip
                        /\ limiter.served[k].at = limiter.requests[client_ip][i]
              /\ Len(limiter.requests[client_ip]) <=
                    Cardinality({ k \in 1..Len(limiter.served) :
                                    Admitted(k) /\ limiter.served[k].client_ip = client_ip })

\* C30, witness: a client was answered 429, and a later request of the same
\* client, after the window had passed, was admitted and answered with the
\* header.
C30_Witness ==
    /\ limiter.max_requests > 0
    /\ \E k \in 1..Len(limiter.served) : \E j \in 1..Len(limiter.served) :
         /\ k < j /\ limiter.served[k].client_ip = limiter.served[j].client_ip
         /\ limiter.served[k].status = "429"
         /\ limiter.served[j].status = "200" /\ limiter.served[j].counted
         /\ limiter.served[j].remaining # <<>>
         /\ limiter.served[j].at - limiter.served[k].at >= limiter.window

=============================================================================
